---------------------------- MODULE Spec2Model ----------------------------
(***************************************************************************)
(* A model of the two static-analysis scripts of the repository:           *)
(*   src/compact-reviewer/scripts/check-disclosure.py          (disclosure) *)
(*   src/plugins/compact-reviewer/scripts/analyze-complexity.py (complexity)*)
(* Source text is modelled as TLA+ strings, character by character; the    *)
(* regular expressions of the scripts are transcribed as syntax trees and  *)
(* evaluated by a backtracking matcher that follows the priority order of  *)
(* Python's re module (greedy quantifiers, leftmost match).                *)
(***************************************************************************)
EXTENDS Integers, Sequences, FiniteSets, TLC

VARIABLES
    pc,         \* position of the running script ("start" ... "done")
    argv,       \* sys.argv[1:] of the invocation
    fileStatus, \* what open(filepath) finds: "ok", "missing" or "unreadable"
    fileText,   \* the text of the file when fileStatus = "ok"
    content,    \* the text returned by parse_compact_file
    lines,      \* content.split('\n')
    emitted,    \* the list returned by check_disclosure_violations
    issues,     \* main's local list `issues` (sorted in place by the reporter)
    out,        \* the lines printed to standard output
    exitCode,   \* the argument of sys.exit, or -1 while running
    circuits,   \* analyze-complexity main: the list returned by find_circuits
    analyses,   \* analyze-complexity main: the list `analyses`
    total_project_constraints,  \* analyze-complexity main: the running sum
    input,      \* the argument of a function applied on its own
    result      \* what that function returned

vars == <<pc, argv, fileStatus, fileText, content, lines, emitted, issues, out,
          exitCode, circuits, analyses, total_project_constraints, input, result>>

ioVars         == <<argv, fileStatus, fileText>>
disclosureVars == <<content, lines, emitted, issues>>
complexityVars == <<content, circuits, analyses, total_project_constraints>>
functionVars   == <<input, result>>

----------------------------------------------------------------------------
(* Characters and strings                                                  *)

\* s[a-1:b] for 1 <= a and b <= len(s); the empty string when a > b
Sub(s, a, b) == IF a > b THEN "" ELSE SubSeq(s, a, b)
Char(s, i) == SubSeq(s, i, i)

Lower == {"a","b","c","d","e","f","g","h","i","j","k","l","m",
          "n","o","p","q","r","s","t","u","v","w","x","y","z"}
Upper == {"A","B","C","D","E","F","G","H","I","J","K","L","M",
          "N","O","P","Q","R","S","T","U","V","W","X","Y","Z"}
Digit == {"0","1","2","3","4","5","6","7","8","9"}
\* \w of Python's re on the characters used here
WordChar == Lower \cup Upper \cup Digit \cup {"_"}
\* \s of Python's re
Space == {" ", "\t", "\n", "\r"}

\* x in s  (Python substring test)
Contains(s, x) ==
    \E i \in 1..(Len(s) - Len(x) + 1) : SubSeq(s, i, i + Len(x) - 1) = x

\* s.endswith(x)
EndsWith(s, x) ==
    Len(s) >= Len(x) /\ SubSeq(s, Len(s) - Len(x) + 1, Len(s)) = x

\* s.count(c) for a single character c
CountChar(s, c) == Cardinality({i \in 1..Len(s) : Char(s, i) = c})

Max(S) == CHOOSE x \in S : \A y \in S : y <= x
Min(S) == CHOOSE x \in S : \A y \in S : x <= y

\* s.split('\n'): the pieces between consecutive newlines
Split(s) ==
    LET nl    == {i \in 1..Len(s) : Char(s, i) = "\n"}
        cut(k) == IF k = 0 THEN 0
                  ELSE IF k > Cardinality(nl) THEN Len(s) + 1
                  ELSE CHOOSE p \in nl : Cardinality({q \in nl : q < p}) = k - 1
    IN  [k \in 1..(Cardinality(nl) + 1) |-> Sub(s, cut(k - 1) + 1, cut(k) - 1)]

\* '\n'.join(ls)
RECURSIVE Join(_)
Join(ls) ==
    IF ls = <<>> THEN ""
    ELSE IF Len(ls) = 1 THEN ls[1]
    ELSE ls[1] \o "\n" \o Join(Tail(ls))

\* s.strip()
Strip(s) ==
    LET keep == {i \in 1..Len(s) : Char(s, i) \notin Space}
    IN  IF keep = {} THEN "" ELSE Sub(s, Min(keep), Max(keep))

----------------------------------------------------------------------------
(* Regular expressions.  Every quantifier in the patterns of the two        *)
(* scripts is greedy, and every * and + applies to a single-character       *)
(* class, so a pattern is a concatenation of literals, classes, \b,         *)
(* repeated classes and optional groups.                                    *)

Lit(x)     == [t |-> "lit", x |-> x]              \* a literal string
Cls(c)     == [t |-> "cls", c |-> c, neg |-> FALSE] \* [...]   one character of c
NotCls(c)  == [t |-> "cls", c |-> c, neg |-> TRUE]  \* [^...]  one character not in c
AnyChar    == NotCls({"\n"})                      \* .
WordB      == [t |-> "wb"]                        \* \b
Star(cl)   == [t |-> "rep", cl |-> cl, min |-> 0] \* cl*  for a class cl
Plus(cl)   == [t |-> "rep", cl |-> cl, min |-> 1] \* cl+  for a class cl
Opt(r)     == [t |-> "opt", r |-> r]              \* r?
Cat(rs)    == [t |-> "cat", rs |-> rs]            \* r1 r2 ... rn

\* the class cl accepts character i of s
InClass(cl, s, i) == i <= Len(s) /\ ((Char(s, i) \in cl.c) # cl.neg)

\* \b at position i of s (between character i-1 and character i)
IsWordBoundary(s, i) ==
    (i > 1 /\ Char(s, i - 1) \in WordChar) # (i <= Len(s) /\ Char(s, i) \in WordChar)

\* the length of the longest run of characters of class cl that starts at i
Run(cl, s, i) ==
    Max({n \in 0..(Len(s) + 1 - i) : \A j \in i..(i + n - 1) : InClass(cl, s, j)})

\* Ends(r, s, i): the positions at which a match of r that starts at position i
\* of s can end (one past its last character)
RECURSIVE Ends(_, _, _), CatEnds(_, _, _, _)
Ends(r, s, i) ==
    CASE r.t = "lit" -> IF i + Len(r.x) - 1 <= Len(s) /\ Sub(s, i, i + Len(r.x) - 1) = r.x
                        THEN {i + Len(r.x)} ELSE {}
      [] r.t = "cls" -> IF InClass(r, s, i) THEN {i + 1} ELSE {}
      [] r.t = "wb"  -> IF IsWordBoundary(s, i) THEN {i} ELSE {}
      [] r.t = "rep" -> (i + r.min)..(i + Run(r.cl, s, i))
      [] r.t = "opt" -> Ends(r.r, s, i) \cup {i}
      [] r.t = "cat" -> CatEnds(r.rs, 1, s, i)

\* the concatenation rs[k] rs[k+1] ... from position i
CatEnds(rs, k, s, i) ==
    IF k > Len(rs) THEN {i}
    ELSE UNION {CatEnds(rs, k + 1, s, j) : j \in Ends(rs[k], s, i)}

\* the positions from `from` on at which a match of r starts
MatchStarts(r, s, from) == {i \in from..(Len(s) + 1) : Ends(r, s, i) # {}}

\* pattern.search(s) is not None
Search(r, s) == MatchStarts(r, s, 1) # {}

\* the ends of the segments segs[k..] of the match that starts at i and is tried
\* first: each segment in turn as long as the rest of the pattern allows;
\* <<>> when the segments do not match from i
RECURSIVE Path(_, _, _, _)
Path(segs, k, s, i) ==
    IF k > Len(segs) THEN <<>>
    ELSE LET ok == {j \in Ends(segs[k], s, i) :
                       CatEnds(segs, k + 1, s, j) # {}}
         IN  IF ok = {} THEN <<>>
             ELSE <<Max(ok)>> \o Path(segs, k + 1, s, Max(ok))

\* pattern.search(s) for a pattern cut into segments at its group boundaries:
\* <<>> when nothing matches, else <<start, end of segs[1], ..., end of segs[n]>>
\* of the leftmost match
SearchGroups(segs, s) ==
    LET starts == MatchStarts(Cat(segs), s, 1)
    IN  IF starts = {} THEN <<>>
        ELSE <<Min(starts)>> \o Path(segs, 1, s, Min(starts))

\* re.findall for a pattern (cut into segments) that matches no empty string:
\* the leftmost match from `from`, then the matches after its end; each match
\* is given as <<start, end of segs[1], ..., end of segs[n]>>
RECURSIVE FindAll(_, _, _)
FindAll(segs, s, from) ==
    LET starts == MatchStarts(Cat(segs), s, from)
    IN  IF starts = {} THEN <<>>
        ELSE LET m == <<Min(starts)>> \o Path(segs, 1, s, Min(starts))
             IN  <<m>> \o FindAll(segs, s, m[Len(m)])

\* len(re.findall(r, s))
CountMatches(r, s) == Len(FindAll(<<r>>, s, 1))

\* int(d) for a string of decimal digits
DigitValue(c) == CHOOSE n \in 0..9 : ToString(n) = c
RECURSIVE ParseInt(_)
ParseInt(d) ==
    IF d = "" THEN 0
    ELSE 10 * ParseInt(Sub(d, 1, Len(d) - 1)) + DigitValue(Char(d, Len(d)))

\* f"{n:,}" for n >= 0
RECURSIVE Commas(_)
Commas(n) ==
    IF n < 1000 THEN ToString(n)
    ELSE Commas(n \div 1000) \o ","
         \o (IF n % 1000 < 10 THEN "00" ELSE IF n % 1000 < 100 THEN "0" ELSE "")
         \o ToString(n % 1000)

----------------------------------------------------------------------------
(* check-disclosure.py                                                     *)

\* DisclosureIssue(line, description, severity)
DisclosureIssue(line, description, severity) ==
    [line |-> line, description |-> description, severity |-> severity]

\* r'witness\s+(\w+)\s*\([^)]*\)\s*:\s*(\w+(?:<[^>]+>)?)\s*;'
\* cut at the boundaries of its two groups: segments 2 and 4 are the groups
witness_pattern ==
    << Cat(<<Lit("witness"), Plus(Cls(Space))>>),
       Plus(Cls(WordChar)),
       Cat(<<Star(Cls(Space)), Lit("("), Star(NotCls({")"})), Lit(")"),
             Star(Cls(Space)), Lit(":"), Star(Cls(Space))>>),
       Cat(<<Plus(Cls(WordChar)),
             Opt(Cat(<<Lit("<"), Plus(NotCls({">"})), Lit(">")>>))>>),
       Cat(<<Star(Cls(Space)), Lit(";")>>) >>

\* the loop body of find_witness_declarations for line number i:
\* <<(name, i, type_str)>> when the pattern matches the line, else <<>>
WitnessOfLine(line, i) ==
    LET m == SearchGroups(witness_pattern, line)
    IN  IF m = <<>> THEN <<>>
        ELSE << <<Sub(line, m[2], m[3] - 1), i, Sub(line, m[4], m[5] - 1)>> >>

RECURSIVE WitnessesFrom(_, _)
WitnessesFrom(ls, i) ==
    IF i > Len(ls) THEN <<>>
    ELSE WitnessOfLine(ls[i], i) \o WitnessesFrom(ls, i + 1)

find_witness_declarations(text) == WitnessesFrom(Split(text), 1)

\* the patterns of is_low_entropy_type, in list order
low_entropy_patterns ==
    << Cat(<<Lit("Uint<"), Cls({"1","2","3","4","5","6","7","8","9"}), Lit(">")>>),
       Cat(<<Lit("Uint<1"), Cls(Digit), Lit(">")>>),
       Lit("Boolean"),
       Lit("Enum<") >>

is_low_entropy_type(type_str) ==
    \E k \in 1..Len(low_entropy_patterns) : Search(low_entropy_patterns[k], type_str)

\* the usage pattern without its leading \b
usage_pattern_unanchored(witness_name) ==
    Cat(<<Lit(witness_name), Star(Cls(Space)), Lit("("), Star(Cls(Space)), Lit(")")>>)
\* rf'\b{witness_name}\s*\(\s*\)'
usage_pattern(witness_name) ==
    Cat(<<WordB, Lit(witness_name), Star(Cls(Space)), Lit("("), Star(Cls(Space)), Lit(")")>>)

\* the loop of find_witness_usages passing over the lines that declare a witness
RECURSIVE UsagesOutsideDeclarationsFrom(_, _, _)
UsagesOutsideDeclarationsFrom(ls, witness_name, i) ==
    IF i > Len(ls) THEN <<>>
    ELSE (IF /\ Search(usage_pattern(witness_name), ls[i])
             /\ ~Search(Cat(witness_pattern), ls[i])
          THEN << <<i, Strip(ls[i])>> >> ELSE <<>>)
         \o UsagesOutsideDeclarationsFrom(ls, witness_name, i + 1)
RECURSIVE UsagesFrom(_, _, _)
UsagesFrom(ls, witness_name, i) ==
    IF i > Len(ls) THEN <<>>
    ELSE (IF Search(usage_pattern(witness_name), ls[i])
          THEN << <<i, Strip(ls[i])>> >> ELSE <<>>)
         \o UsagesFrom(ls, witness_name, i + 1)

find_witness_usages(text, witness_name) == UsagesFrom(Split(text), witness_name, 1)

ledger_ops == <<"increment", "decrement", "write", "push", "set", "insert">>

R1Description(witness_name, type_str) ==
    "Low-entropy witness '" \o witness_name \o "' (" \o type_str
    \o ") used in persistentHash() - vulnerable to brute-force (AV-03/AV-06)"
R2Description(witness_name) ==
    "Witness '" \o witness_name \o "' may flow to public output without disclose()"
R3Description(witness_name, op) ==
    "Witness '" \o witness_name \o "' used in ledger " \o op
    \o "() - verify disclosure intent"
R4Description ==
    "Control flow depends on witness value - potential timing leak (AV-01)"

\* the low-entropy rule, silenced by a disclose marker like the other rules
RuleLowEntropyHashUnlessDisclosed(witness_name, type_str, line_num, line_content) ==
    IF /\ Contains(line_content, "persistentHash") /\ is_low_entropy_type(type_str)
       /\ ~Contains(line_content, "disclose")
    THEN <<DisclosureIssue(line_num, R1Description(witness_name, type_str), "critical")>>
    ELSE <<>>
\* low-entropy witness in persistentHash
RuleLowEntropyHash(witness_name, type_str, line_num, line_content) ==
    IF Contains(line_content, "persistentHash") /\ is_low_entropy_type(type_str)
    THEN <<DisclosureIssue(line_num, R1Description(witness_name, type_str), "critical")>>
    ELSE <<>>

\* the return check without its test for a disclose marker
RuleReturnIgnoringDisclose(witness_name, line_num, line_content) ==
    IF /\ Contains(line_content, "return")
       /\ Contains(line_content, witness_name)
    THEN <<DisclosureIssue(line_num, R2Description(witness_name), "high")>>
    ELSE <<>>
\* witness value in return without disclose
RuleReturn(witness_name, line_num, line_content) ==
    IF /\ Contains(line_content, "return")
       /\ ~Contains(line_content, "disclose")
       /\ Contains(line_content, witness_name)
    THEN <<DisclosureIssue(line_num, R2Description(witness_name), "high")>>
    ELSE <<>>

\* the loop over ledger_ops left at the first operation found on the line
RECURSIVE RuleLedgerFirstOnly(_, _, _, _)
RuleLedgerFirstOnly(witness_name, line_num, line_content, k) ==
    IF k > Len(ledger_ops) THEN <<>>
    ELSE IF /\ Contains(line_content, "." \o ledger_ops[k] \o "(")
            /\ Contains(line_content, witness_name)
            /\ ~Contains(line_content, "disclose")
         THEN <<DisclosureIssue(line_num, R3Description(witness_name, ledger_ops[k]), "medium")>>
         ELSE RuleLedgerFirstOnly(witness_name, line_num, line_content, k + 1)
\* witness in ledger operations: the loop `for op in ledger_ops`
RECURSIVE RuleLedger(_, _, _, _)
RuleLedger(witness_name, line_num, line_content, k) ==
    IF k > Len(ledger_ops) THEN <<>>
    ELSE (IF /\ Contains(line_content, "." \o ledger_ops[k] \o "(")
             /\ Contains(line_content, witness_name)
             /\ ~Contains(line_content, "disclose")
          THEN <<DisclosureIssue(line_num, R3Description(witness_name, ledger_ops[k]), "medium")>>
          ELSE <<>>)
         \o RuleLedger(witness_name, line_num, line_content, k + 1)

\* the body of the loop over the usages with the return check placed first
IssuesOfUsageReturnFirst(w, usage) ==
    RuleReturn(w[1], usage[1], usage[2])
    \o RuleLowEntropyHash(w[1], w[3], usage[1], usage[2])
    \o RuleLedger(w[1], usage[1], usage[2], 1)
\* the body of `for line_num, line_content in usages`
IssuesOfUsage(w, usage) ==
    RuleLowEntropyHash(w[1], w[3], usage[1], usage[2])
    \o RuleReturn(w[1], usage[1], usage[2])
    \o RuleLedger(w[1], usage[1], usage[2], 1)

RECURSIVE IssuesOfUsages(_, _, _)
IssuesOfUsages(w, usages, n) ==
    IF n > Len(usages) THEN <<>>
    ELSE IssuesOfUsage(w, usages[n]) \o IssuesOfUsages(w, usages, n + 1)

\* the loop `for witness_name, decl_line, type_str in witnesses`
RECURSIVE IssuesOfWitnesses(_, _, _)
IssuesOfWitnesses(text, witnesses, n) ==
    IF n > Len(witnesses) THEN <<>>
    ELSE IssuesOfUsages(witnesses[n], find_witness_usages(text, witnesses[n][1]), 1)
         \o IssuesOfWitnesses(text, witnesses, n + 1)

\* r'if\s+.*\bget_\w+\s*\(\)'
control_flow_pattern ==
    Cat(<<Lit("if"), Plus(Cls(Space)), Star(AnyChar), WordB, Lit("get_"),
          Plus(Cls(WordChar)), Star(Cls(Space)), Lit("()")>>)

\* the loop `for i, line in enumerate(lines, 1)` of the control-flow check
RECURSIVE ControlFlowIssues(_, _)
ControlFlowIssues(ls, i) ==
    IF i > Len(ls) THEN <<>>
    ELSE (IF Search(control_flow_pattern, ls[i])
          THEN <<DisclosureIssue(i, R4Description, "high")>> ELSE <<>>)
         \o ControlFlowIssues(ls, i + 1)

\* the control-flow loop indented into the loop over the witnesses
check_disclosure_violations_nested(text, ls) ==
    IF find_witness_declarations(text) = <<>> THEN <<>>
    ELSE IssuesOfWitnesses(text, find_witness_declarations(text), 1)
         \o ControlFlowIssues(ls, 1)
check_disclosure_violations(text, ls) ==
    IssuesOfWitnesses(text, find_witness_declarations(text), 1)
    \o ControlFlowIssues(ls, 1)

----------------------------------------------------------------------------
(* check-disclosure.py: main                                               *)

\* The colour codes and the severity icons are written as readable stand-ins
\* for the escape sequences and emoji of the script.
RED    == "<RED>"
GREEN  == "<GREEN>"
YELLOW == "<YELLOW>"
CYAN   == "<CYAN>"
NC     == "<NC>"

\* what `except Exception as e` prints for e
ReadErrorText == "[Errno 13] Permission denied"

\* severity_order.get(x.severity, 3)
severity_order(severity) ==
    CASE severity = "critical" -> 0
      [] severity = "high"     -> 1
      [] severity = "medium"   -> 2
      [] OTHER                 -> 3

severity_icon(severity) ==
    CASE severity = "critical" -> "(red)"
      [] severity = "high"     -> "(orange)"
      [] severity = "medium"   -> "(yellow)"
      [] OTHER                 -> "(white)"

\* the key of the sort: lambda x: severity_order.get(x.severity, 3)
IssueKey(x) == severity_order(x.severity)

\* issues.sort(key=...): list.sort is stable; here by insertion, an element
\* going after the elements whose key is not greater than its own
\* an insertion that is not stable: before the elements of equal key
InsertBeforeEqualKeys(sorted, x) ==
    LET n == Cardinality({k \in 1..Len(sorted) : IssueKey(sorted[k]) < IssueKey(x)})
    IN  SubSeq(sorted, 1, n) \o <<x>> \o SubSeq(sorted, n + 1, Len(sorted))
InsertByKey(sorted, x) ==
    LET n == Cardinality({k \in 1..Len(sorted) : IssueKey(sorted[k]) <= IssueKey(x)})
    IN  SubSeq(sorted, 1, n) \o <<x>> \o SubSeq(sorted, n + 1, Len(sorted))
RECURSIVE SortByKey(_)
SortByKey(xs) ==
    IF xs = <<>> THEN <<>>
    ELSE InsertByKey(SortByKey(SubSeq(xs, 1, Len(xs) - 1)), xs[Len(xs)])

\* print(f"  - Line {issue.line}: {severity_icon} {issue.description}")
IssueLine(issue) ==
    "  - Line " \o ToString(issue.line) \o ": " \o severity_icon(issue.severity)
    \o " " \o issue.description

FailHeader(colour, filepath) == colour \o "[FAIL]" \o NC \o " Disclosure Check: " \o filepath

Exit(code) == pc' = "done" /\ exitCode' = code

\* if len(sys.argv) < 2
main_check_argv ==
    /\ pc = "start"
    /\ IF Len(argv) < 1
       THEN /\ out' = out \o <<"Usage: python3 check-disclosure.py <file.compact>">>
            /\ Exit(2)
       ELSE /\ pc' = "extension"
            /\ UNCHANGED <<out, exitCode>>
    /\ UNCHANGED <<ioVars, disclosureVars, circuits, analyses,
                   total_project_constraints, functionVars>>

\* main without the extension check before the read: every path goes on to
\* parse_compact_file
main_check_extension_skipped ==
    /\ pc = "extension"
    /\ pc' = "read"
    /\ UNCHANGED <<out, exitCode>>
    /\ UNCHANGED <<ioVars, disclosureVars, circuits, analyses,
                   total_project_constraints, functionVars>>
\* if not filepath.endswith('.compact')
main_check_extension ==
    /\ pc = "extension"
    /\ IF ~EndsWith(argv[1], ".compact")
       THEN /\ out' = out \o <<FailHeader(RED, argv[1]), "Error: Not a .compact file">>
            /\ Exit(2)
       ELSE /\ pc' = "read"
            /\ UNCHANGED <<out, exitCode>>
    /\ UNCHANGED <<ioVars, disclosureVars, circuits, analyses,
                   total_project_constraints, functionVars>>

\* the except clauses of parse_compact_file: what is printed, and the exit code
ReadFailureSameCode(filepath) ==
    IF fileStatus = "missing"
    THEN [printed |-> <<FailHeader(RED, filepath), "Error: File not found">>, code |-> 2]
    ELSE [printed |-> <<FailHeader(RED, filepath), "Error: " \o ReadErrorText>>, code |-> 1]
ReadFailure(filepath) ==
    IF fileStatus = "missing"
    THEN [printed |-> <<FailHeader(RED, filepath), "Error: File not found">>, code |-> 2]
    ELSE [printed |-> <<FailHeader(RED, filepath), "Error: " \o ReadErrorText>>, code |-> 2]

\* content, lines = parse_compact_file(filepath)
parse_compact_file ==
    /\ pc = "read"
    /\ IF fileStatus = "ok"
       THEN /\ content' = fileText
            /\ lines' = Split(fileText)
            /\ pc' = "check"
            /\ UNCHANGED <<out, exitCode>>
       ELSE /\ out' = out \o ReadFailure(argv[1]).printed
            /\ Exit(ReadFailure(argv[1]).code)
            /\ UNCHANGED <<content, lines>>
    /\ UNCHANGED <<ioVars, emitted, issues, circuits, analyses,
                   total_project_constraints, functionVars>>

\* issues = check_disclosure_violations(content, lines)
main_check_disclosure_violations ==
    /\ pc = "check"
    /\ emitted' = check_disclosure_violations(content, lines)
    /\ issues' = emitted'
    /\ pc' = "report"
    /\ UNCHANGED <<ioVars, content, lines, out, exitCode, circuits, analyses,
                   total_project_constraints, functionVars>>

\* if not issues: ... sys.exit(0)  else: ... sys.exit(1)
main_report ==
    /\ pc = "report"
    /\ IF issues = <<>>
       THEN /\ out' = out \o <<GREEN \o "[PASS]" \o NC \o " Disclosure Check: " \o argv[1],
                               "", "No disclosure issues detected.">>
            /\ Exit(0)
            /\ UNCHANGED issues
       ELSE /\ issues' = SortByKey(issues)
            /\ out' = out \o <<FailHeader(YELLOW, argv[1]), "", "Potential violations:">>
                          \o [k \in 1..Len(issues') |-> IssueLine(issues'[k])]
                          \o <<"", "Summary: " \o ToString(Len(issues'))
                                    \o " potential disclosure issues">>
            /\ Exit(1)
    /\ UNCHANGED <<ioVars, content, lines, emitted, circuits, analyses,
                   total_project_constraints, functionVars>>

----------------------------------------------------------------------------
(* The invocations of check-disclosure.py that are explored                 *)

MaxLines == 3

DisclosureLines ==
    { "witness getAge(): Uint<8>;",
      "witness get_bal(): Uint<32>;",
      "  if (get_bal() > 0) { return persistentHash(getAge()); }",
      "  if(get_bal()) { ledger.insert(disclose(getAge())); }",
      "  store.set(getAge()); log.push(get_bal ( ));",
      "  const persistentHashSeen = getAge();",
      "  const diff = get_x() + persistentHash(disclose(getAge()));" }

\* the texts of at most n lines, each line one of ls
RECURSIVE Texts(_, _)
Texts(ls, n) ==
    IF n = 0 THEN {""}
    ELSE LET shorter == Texts(ls, n - 1)
         IN  shorter \cup ls \cup {t \o "\n" \o l : t \in shorter \ {""}, l \in ls}

Paths == {"a.compact", "a.txt"}

Invocations(texts) ==
    /\ argv \in {<<>>} \cup {<<p>> : p \in Paths}
    /\ fileStatus \in {"ok", "missing", "unreadable"}
    /\ fileText \in IF fileStatus = "ok" THEN texts ELSE {""}
    /\ pc = "start"
    /\ out = <<>>
    /\ exitCode = -1

Init ==
    /\ Invocations(Texts(DisclosureLines, MaxLines))
    /\ content = "" /\ lines = <<>> /\ emitted = <<>> /\ issues = <<>>
    /\ circuits = <<>> /\ analyses = <<>> /\ total_project_constraints = 0
    /\ input = "" /\ result = ""

Next ==
    \/ main_check_argv
    \/ main_check_extension
    \/ parse_compact_file
    \/ main_check_disclosure_violations
    \/ main_report

Spec == Init /\ [][Next]_vars

----------------------------------------------------------------------------
(* analyze-complexity.py                                                   *)

\* CONSTRAINT_COSTS[key], for the keys the script reads
CONSTRAINT_COSTS(key) ==
    CASE key = "sha256"                -> 25000
      [] key = "persistentHash"        -> 1000
      [] key = "ecMul"                 -> 7500
      [] key = "comparison_inequality" -> 254
      [] key = "merkle_hash_per_level" -> 1000
      [] key = "map_membership"        -> 254

\* r'(?:export\s+)?circuit\s+(\w+)\s*\([^)]*\)\s*:\s*[^\{]+\{'
\* cut at the boundaries of its group: segment 2 is the circuit name
circuit_pattern ==
    << Cat(<<Opt(Cat(<<Lit("export"), Plus(Cls(Space))>>)), Lit("circuit"),
             Plus(Cls(Space))>>),
       Plus(Cls(WordChar)),
       Cat(<<Star(Cls(Space)), Lit("("), Star(NotCls({")"})), Lit(")"),
             Star(Cls(Space)), Lit(":"), Star(Cls(Space)),
             Plus(NotCls({"{"})), Lit("{")>>) >>

\* line.count('{') - line.count('}')
BraceBalance(line) == CountChar(line, "{") - CountChar(line, "}")

\* the inner loop running until the counter is exactly zero
\* (`brace_count != 0`)
RECURSIVE BodyEndAtZero(_, _, _)
BodyEndAtZero(ls, q, brace_count) ==
    IF q <= Len(ls) /\ brace_count # 0
    THEN BodyEndAtZero(ls, q + 1, brace_count + BraceBalance(ls[q]))
    ELSE q
\* the inner loop stopping as well in front of a line that is a circuit header
RECURSIVE BodyEndBeforeHeader(_, _, _)
BodyEndBeforeHeader(ls, q, brace_count) ==
    IF q <= Len(ls) /\ brace_count > 0 /\ ~Search(Cat(circuit_pattern), ls[q])
    THEN BodyEndBeforeHeader(ls, q + 1, brace_count + BraceBalance(ls[q]))
    ELSE q
\* the inner loop `while j < len(lines) and brace_count > 0` from index q
\* (1-based): the index at which it stops
RECURSIVE BodyEnd(_, _, _)
BodyEnd(ls, q, brace_count) ==
    IF q <= Len(ls) /\ brace_count > 0
    THEN BodyEnd(ls, q + 1, brace_count + BraceBalance(ls[q]))
    ELSE q

\* the outer loop resuming on the line after the header (i += 1) instead of
\* the line after the body (i = j)
RECURSIVE CircuitsFromNextLine(_, _)
CircuitsFromNextLine(ls, h) ==
    IF h > Len(ls) THEN <<>>
    ELSE LET m == SearchGroups(circuit_pattern, ls[h])
         IN  IF m # <<>>
             THEN LET q == BodyEnd(ls, h + 1, BraceBalance(ls[h]))
                      body_lines == <<Sub(ls[h], m[4] - 1, Len(ls[h]))>>
                                    \o SubSeq(ls, h + 1, q - 1)
                  IN  << <<Sub(ls[h], m[2], m[3] - 1), h, Join(body_lines)>> >>
                      \o CircuitsFromNextLine(ls, h + 1)
             ELSE CircuitsFromNextLine(ls, h + 1)
\* the outer loop `while i < len(lines)` from index h (1-based)
RECURSIVE CircuitsFrom(_, _)
CircuitsFrom(ls, h) ==
    IF h > Len(ls) THEN <<>>
    ELSE LET m == SearchGroups(circuit_pattern, ls[h])
         IN  IF m # <<>>
             THEN LET q == BodyEnd(ls, h + 1, BraceBalance(ls[h]))
                      body_lines == <<Sub(ls[h], m[4] - 1, Len(ls[h]))>>
                                    \o SubSeq(ls, h + 1, q - 1)
                  IN  << <<Sub(ls[h], m[2], m[3] - 1), h, Join(body_lines)>> >>
                      \o CircuitsFrom(ls, q)
             ELSE CircuitsFrom(ls, h + 1)

find_circuits(text) == CircuitsFrom(Split(text), 1)

\* the inner index starting on the header line itself (j = i)
ResumeIndexFromHeader(ls, h) ==
    IF BraceBalance(ls[h]) > 0 THEN BodyEnd(ls, h + 1, BraceBalance(ls[h])) ELSE h
\* `j = i + 1`, the inner loop, `i = j`: the index the outer loop resumes at
\* after the header on line h
ResumeIndex(ls, h) == BodyEnd(ls, h + 1, BraceBalance(ls[h]))

\* r'MerkleTree(?:Client)?<(\d+)>', cut at its group (segment 2)
merkle_pattern ==
    << Cat(<<Lit("MerkleTree"), Opt(Lit("Client")), Lit("<")>>),
       Plus(Cls(Digit)),
       Lit(">") >>

\* r'for\s+\w+\s+in\s+(\d+)\.\.(\d+)', cut at its groups (segments 2 and 4)
loop_pattern ==
    << Cat(<<Lit("for"), Plus(Cls(Space)), Plus(Cls(WordChar)), Plus(Cls(Space)),
             Lit("in"), Plus(Cls(Space))>>),
       Plus(Cls(Digit)),
       Lit(".."),
       Plus(Cls(Digit)) >>

\* r'\bNAME\s*\('
call_pattern(name) == Cat(<<WordB, Lit(name), Star(Cls(Space)), Lit("(")>>)

\* max(int(d) for d in merkle_matches)
MerkleDepth(body, merkle_matches) ==
    Max({ParseInt(Sub(body, merkle_matches[k][2], merkle_matches[k][3] - 1)) :
            k \in 1..Len(merkle_matches)})

\* the loop `for start, end in loop_matches`
RECURSIVE LoopIterations(_, _, _)
LoopIterations(body, loop_matches, k) ==
    IF k > Len(loop_matches) THEN 0
    ELSE ParseInt(Sub(body, loop_matches[k][4], loop_matches[k][5] - 1))
         - ParseInt(Sub(body, loop_matches[k][2], loop_matches[k][3] - 1))
         + LoopIterations(body, loop_matches, k + 1)

count_operations(body) ==
    LET merkle_matches == FindAll(merkle_pattern, body, 1)
    IN  [ hash_operations |->
              CountMatches(call_pattern("persistentHash"), body)
              + CountMatches(call_pattern("persistentCommit"), body)
              + CountMatches(call_pattern("hash"), body),
          sha256_operations |-> CountMatches(call_pattern("sha256"), body),
          ec_operations |-> CountMatches(call_pattern("ecMul"), body),
          merkle_proofs |-> Len(merkle_matches),
          merkle_depth |->
              IF merkle_matches # <<>> THEN MerkleDepth(body, merkle_matches) ELSE 0,
          inequality_comparisons |->
              CountMatches(Cat(<<Cls({"<", ">"}), Opt(Lit("="))>>), body),
          equality_comparisons |-> CountMatches(Lit("=="), body),
          loop_iterations |-> LoopIterations(body, FindAll(loop_pattern, body, 1), 1),
          collection_accesses |->
              CountMatches(Cat(<<Lit("["), Plus(Cls(WordChar)), Lit("]")>>), body) ]

\* depth = ops['merkle_depth'] or 20
EffectiveDepth(ops) == IF ops.merkle_depth # 0 THEN ops.merkle_depth ELSE 20

\* the cost terms of estimate_constraints, in the order of the script; each is
\* <<count, cost, breakdown line>> and takes part when its count is > 0
CostTerms(ops) ==
    << <<ops.hash_operations,
         ops.hash_operations * CONSTRAINT_COSTS("persistentHash"),
         "Hash operations: " \o ToString(ops.hash_operations) \o " x ~1,000 = ~">>,
       <<ops.sha256_operations,
         ops.sha256_operations * CONSTRAINT_COSTS("sha256"),
         "SHA256 operations: " \o ToString(ops.sha256_operations) \o " x ~25,000 = ~">>,
       <<ops.ec_operations,
         ops.ec_operations * CONSTRAINT_COSTS("ecMul"),
         "EC multiplications: " \o ToString(ops.ec_operations) \o " x ~7,500 = ~">>,
       <<ops.merkle_proofs,
         ops.merkle_proofs * EffectiveDepth(ops) * CONSTRAINT_COSTS("merkle_hash_per_level"),
         "Merkle proofs: depth " \o ToString(EffectiveDepth(ops)) \o " x ~1,000 = ~">>,
       <<ops.inequality_comparisons,
         ops.inequality_comparisons * CONSTRAINT_COSTS("comparison_inequality"),
         "Comparisons (<, >): " \o ToString(ops.inequality_comparisons) \o " x ~254 = ~">>,
       <<ops.collection_accesses,
         ops.collection_accesses * CONSTRAINT_COSTS("map_membership"),
         "Collection accesses: " \o ToString(ops.collection_accesses) \o " x ~254 = ~">> >>

\* the statements `if ops[...] > 0: ... breakdown.append(...); total += cost`
\* for the terms k.. : [total, breakdown]
RECURSIVE AddTerms(_, _)
AddTerms(terms, k) ==
    IF k > Len(terms) THEN [total |-> 0, breakdown |-> <<>>]
    ELSE LET rest == AddTerms(terms, k + 1)
         IN  IF terms[k][1] > 0
             THEN [total |-> terms[k][2] + rest.total,
                   breakdown |-> <<terms[k][3] \o Commas(terms[k][2])>> \o rest.breakdown]
             ELSE rest

\* the loop note: appended to the breakdown, the total is not multiplied
LoopNote(ops) ==
    IF ops.loop_iterations > 1
    THEN <<"Loop iterations: ~" \o ToString(ops.loop_iterations)
           \o " (constraints scale linearly)">>
    ELSE <<>>

\* the estimate with the total multiplied by the capped loop count
estimate_constraints_multiplied(ops) ==
    LET sum == AddTerms(CostTerms(ops), 1)
        loop_multiplier == IF ops.loop_iterations < 100 THEN ops.loop_iterations ELSE 100
    IN  [total |-> IF ops.loop_iterations > 1 THEN sum.total * loop_multiplier
                   ELSE sum.total,
         breakdown |-> sum.breakdown \o LoopNote(ops)]
\* estimate_constraints(ops): (total, breakdown)
estimate_constraints(ops) ==
    LET sum == AddTerms(CostTerms(ops), 1)
    IN  [total |-> sum.total, breakdown |-> sum.breakdown \o LoopNote(ops)]

\* the advisor with its thresholds taken inclusively (>= 5, >= 50, >= 20, >= 2)
suggest_optimizations_inclusive(ops, circuit_body) ==
    (IF ops.sha256_operations > 0
     THEN <<"Consider replacing SHA256 with Pedersen hash (~25x constraint reduction)">>
     ELSE <<>>)
    \o (IF ops.inequality_comparisons >= 5
        THEN <<"High comparison count - consider restructuring logic to minimize < and > operations">>
        ELSE <<>>)
    \o (IF ops.loop_iterations >= 50
        THEN <<"Large loop detected - consider moving computation to witness functions">>
        ELSE <<>>)
    \o (IF ops.merkle_depth >= 20
        THEN <<"Deep Merkle tree (depth " \o ToString(ops.merkle_depth)
               \o ") - consider if smaller tree is sufficient">>
        ELSE <<>>)
    \o (IF Contains(circuit_body, "get_") /\ ops.hash_operations >= 2
        THEN <<"Multiple hash operations - verify some can be computed off-chain in witness">>
        ELSE <<>>)
suggest_optimizations(ops, circuit_body) ==
    (IF ops.sha256_operations > 0
     THEN <<"Consider replacing SHA256 with Pedersen hash (~25x constraint reduction)">>
     ELSE <<>>)
    \o (IF ops.inequality_comparisons > 5
        THEN <<"High comparison count - consider restructuring logic to minimize < and > operations">>
        ELSE <<>>)
    \o (IF ops.loop_iterations > 50
        THEN <<"Large loop detected - consider moving computation to witness functions">>
        ELSE <<>>)
    \o (IF ops.merkle_depth > 20
        THEN <<"Deep Merkle tree (depth " \o ToString(ops.merkle_depth)
               \o ") - consider if smaller tree is sufficient">>
        ELSE <<>>)
    \o (IF Contains(circuit_body, "get_") /\ ops.hash_operations > 2
        THEN <<"Multiple hash operations - verify some can be computed off-chain in witness">>
        ELSE <<>>)

\* the classification with the thresholds taken inclusively
classify_complexity_inclusive(total_constraints) ==
    IF total_constraints <= 1000 THEN "Low"
    ELSE IF total_constraints <= 10000 THEN "Medium"
    ELSE IF total_constraints <= 50000 THEN "High"
    ELSE "Very High"
classify_complexity(total_constraints) ==
    IF total_constraints < 1000 THEN "Low"
    ELSE IF total_constraints < 10000 THEN "Medium"
    ELSE IF total_constraints < 50000 THEN "High"
    ELSE "Very High"

----------------------------------------------------------------------------
(* analyze-complexity.py: main                                             *)

\* CircuitAnalysis(name, line, operations, estimated_constraints, breakdown,
\* optimizations) of one element of `circuits`
CircuitAnalysis(circuit) ==
    LET ops == count_operations(circuit[3])
        est == estimate_constraints(ops)
    IN  [ name |-> circuit[1], line |-> circuit[2], operations |-> ops,
          estimated_constraints |-> est.total, breakdown |-> est.breakdown,
          optimizations |-> suggest_optimizations(ops, circuit[3]) ]

Indented(items) == [k \in 1..Len(items) |-> "    - " \o items[k]]

\* the body of `for analysis in analyses`: the lines printed for one circuit
AnalysisLines(analysis) ==
    << YELLOW \o "Circuit:" \o NC \o " " \o analysis.name
       \o " (line " \o ToString(analysis.line) \o ")",
       "  Estimated constraints: ~" \o Commas(analysis.estimated_constraints) >>
    \o (IF analysis.breakdown # <<>>
        THEN <<"  Breakdown:">> \o Indented(analysis.breakdown) ELSE <<>>)
    \o (IF analysis.optimizations # <<>>
        THEN <<"  Optimization opportunities:">> \o Indented(analysis.optimizations)
        ELSE <<>>)
    \o <<"">>

RECURSIVE AllAnalysisLines(_, _)
AllAnalysisLines(as, k) ==
    IF k > Len(as) THEN <<>>
    ELSE AnalysisLines(as[k]) \o AllAnalysisLines(as, k + 1)

\* if len(sys.argv) < 2
cx_main_check_argv ==
    /\ pc = "start"
    /\ IF Len(argv) < 1
       THEN /\ out' = out \o <<"Usage: python3 analyze-complexity.py <file.compact>">>
            /\ Exit(1)
       ELSE /\ pc' = "extension"
            /\ UNCHANGED <<out, exitCode>>
    /\ UNCHANGED <<ioVars, complexityVars, lines, emitted, issues, functionVars>>

\* if not filepath.endswith('.compact')
cx_main_check_extension ==
    /\ pc = "extension"
    /\ IF ~EndsWith(argv[1], ".compact")
       THEN /\ out' = out \o <<"Error: Not a .compact file: " \o argv[1]>>
            /\ Exit(1)
       ELSE /\ pc' = "read"
            /\ UNCHANGED <<out, exitCode>>
    /\ UNCHANGED <<ioVars, complexityVars, lines, emitted, issues, functionVars>>

\* the except clauses of parse_compact_file: what is printed, and the exit code
cx_ReadFailureSameCode(filepath) ==
    IF fileStatus = "missing"
    THEN [printed |-> <<"Error: File not found: " \o filepath>>, code |-> 2]
    ELSE [printed |-> <<"Error: " \o ReadErrorText>>, code |-> 2]
cx_ReadFailure(filepath) ==
    IF fileStatus = "missing"
    THEN [printed |-> <<"Error: File not found: " \o filepath>>, code |-> 2]
    ELSE [printed |-> <<"Error: " \o ReadErrorText>>, code |-> 1]

\* content = parse_compact_file(filepath)
cx_parse_compact_file ==
    /\ pc = "read"
    /\ IF fileStatus = "ok"
       THEN /\ content' = fileText
            /\ pc' = "find"
            /\ UNCHANGED <<out, exitCode>>
       ELSE /\ out' = out \o cx_ReadFailure(argv[1]).printed
            /\ Exit(cx_ReadFailure(argv[1]).code)
            /\ UNCHANGED content
    /\ UNCHANGED <<ioVars, circuits, analyses, total_project_constraints,
                   lines, emitted, issues, functionVars>>

\* circuits = find_circuits(content); if not circuits: ... sys.exit(0)
cx_main_find_circuits ==
    /\ pc = "find"
    /\ circuits' = find_circuits(content)
    /\ IF circuits' = <<>>
       THEN /\ out' = out \o <<"Complexity Analysis: " \o argv[1], "",
                               "No circuits found in file.">>
            /\ Exit(0)
       ELSE /\ out' = out \o <<CYAN \o "Complexity Analysis:" \o NC \o " " \o argv[1], "">>
            /\ pc' = "analyze"
            /\ UNCHANGED exitCode
    /\ UNCHANGED <<ioVars, content, analyses, total_project_constraints,
                   lines, emitted, issues, functionVars>>

\* one iteration of `for circuit_name, line_num, body in circuits`
cx_main_analyze_circuit ==
    /\ pc = "analyze"
    /\ Len(analyses) < Len(circuits)
    /\ LET analysis == CircuitAnalysis(circuits[Len(analyses) + 1])
       IN  /\ analyses' = Append(analyses, analysis)
           /\ total_project_constraints' =
                  total_project_constraints + analysis.estimated_constraints
    /\ UNCHANGED <<pc, ioVars, content, circuits, out, exitCode,
                   lines, emitted, issues, functionVars>>

\* the output of each analysis, the overall summary, sys.exit(0)
cx_main_report ==
    /\ pc = "analyze"
    /\ Len(analyses) = Len(circuits)
    /\ out' = out \o AllAnalysisLines(analyses, 1)
                  \o << GREEN \o "Overall complexity:" \o NC \o " "
                        \o classify_complexity(total_project_constraints)
                        \o " (~" \o Commas(total_project_constraints)
                        \o " estimated constraints)",
                        "",
                        "Note: Estimates are heuristic-based. Actual constraint count requires compilation." >>
    /\ Exit(0)
    /\ UNCHANGED <<ioVars, complexityVars, lines, emitted, issues, functionVars>>

----------------------------------------------------------------------------
(* The invocations of analyze-complexity.py that are explored               *)

MaxCircuitLines == 3

ComplexityLines ==
    { "export circuit f(a: Field): Field {",
      "circuit g(): [] { return sha256(x); }",
      "  const h = persistentHash(get_c());",
      "  return check(MerkleTree<24>);",
      "  for i in 3..60 { s = s + v[i]; }",
      "  if (a <= b) { return ecMul(a); }",
      "}" }

InitComplexity ==
    /\ Invocations(Texts(ComplexityLines, MaxCircuitLines))
    /\ content = "" /\ lines = <<>> /\ emitted = <<>> /\ issues = <<>>
    /\ circuits = <<>> /\ analyses = <<>> /\ total_project_constraints = 0
    /\ input = "" /\ result = ""

NextComplexity ==
    \/ cx_main_check_argv
    \/ cx_main_check_extension
    \/ cx_parse_compact_file
    \/ cx_main_find_circuits
    \/ cx_main_analyze_circuit
    \/ cx_main_report

SpecComplexity == InitComplexity /\ [][NextComplexity]_vars

----------------------------------------------------------------------------
(* Both tools, the script that runs being sys.argv[0]                       *)

MaxToolLines == 1

Scripts == {"check-disclosure.py", "analyze-complexity.py"}

\* an invocation of either script; `input` holds the script's name
InitTools ==
    /\ Invocations(Texts(DisclosureLines \cup ComplexityLines, MaxToolLines))
    /\ content = "" /\ lines = <<>> /\ emitted = <<>> /\ issues = <<>>
    /\ circuits = <<>> /\ analyses = <<>> /\ total_project_constraints = 0
    /\ input \in Scripts /\ result = ""

run_check_disclosure == input = "check-disclosure.py" /\ Next
run_analyze_complexity == input = "analyze-complexity.py" /\ NextComplexity

NextTools == run_check_disclosure \/ run_analyze_complexity

SpecTools == InitTools /\ [][NextTools]_vars

----------------------------------------------------------------------------
(* check-cache-freshness.py                                                *)
(* src/plugins/midnight-tooling/scripts/check-cache-freshness.py           *)
(* Time is counted in minutes. fileStatus is the state of METADATA_FILE:   *)
(* "missing", "corrupted" (json.load or open raises) or "ok"; input is the *)
(* metadata that json.load returns.                                        *)

STALENESS_HOURS == 48

\* datetime.now(timezone.utc), in minutes
Now == 100000

\* round(age.total_seconds() / 3600, 1) for an age of m minutes, in tenths of
\* an hour; m is never half-way between two tenths (m % 6 = 3), where the
\* result depends on the binary representation of the quotient
RoundTenths(m) ==
    LET q == m \div 6
        r == m % 6
    IN  IF r < 3 THEN q ELSE q + 1

\* str() of the rounded age: tenths of an hour as a decimal, a negative age
\* that rounds to zero being the float -0.0
FormatHours(m) ==
    LET t == RoundTenths(m)
        a == IF t < 0 THEN 0 - t ELSE t
    IN  (IF m < 0 THEN "-" ELSE "") \o ToString(a \div 10) \o "." \o ToString(a % 10)

\* the result dict at the start of get_cache_status; None is "None"
EmptyStatus ==
    [ exists |-> FALSE, fresh |-> FALSE, age_hours |-> "None",
      last_updated |-> "None", git_commit |-> "None",
      cache_dir |-> "~/.cache/midnight-tooling", message |-> "" ]

\* metadata.get("lastUpdated") as text; a timestamp is written by its kind
TimestampText(lastUpdated) ==
    CASE lastUpdated.kind = "absent"  -> "None"
      [] lastUpdated.kind = "empty"   -> ""
      [] lastUpdated.kind = "invalid" -> "yesterday"
      [] lastUpdated.kind = "naive"   -> "T" \o ToString(lastUpdated.instant)
      [] lastUpdated.kind = "aware"   -> "T" \o ToString(lastUpdated.instant) \o "Z"

\* get_cache_status(): the status dict, raised |-> TRUE when an exception
\* that the function does not catch leaves it
get_cache_status(status, metadata, now) ==
    IF status = "missing"
    THEN [raised |-> FALSE, status |->
            [EmptyStatus EXCEPT !.message =
                "Release notes cache not found. Run /midnight:sync-releases to download."]]
    ELSE IF status = "corrupted"
    THEN [raised |-> FALSE, status |->
            [EmptyStatus EXCEPT !.message =
                "Cache metadata corrupted: <e>. Run /midnight:sync-releases to fix."]]
    ELSE
      LET loaded == [EmptyStatus EXCEPT !.exists = TRUE,
                                        !.last_updated = TimestampText(metadata.lastUpdated),
                                        !.git_commit = metadata.gitCommit]
          kind == metadata.lastUpdated.kind
          age == now - metadata.lastUpdated.instant
      IN  IF kind \in {"absent", "empty"}
          THEN [raised |-> FALSE, status |->
                  [loaded EXCEPT !.message =
                      "Cache metadata missing timestamp. Run /midnight:sync-releases to fix."]]
          ELSE IF kind = "invalid"
          THEN [raised |-> FALSE, status |->
                  [loaded EXCEPT !.message = "Invalid timestamp format: <e>"]]
          ELSE IF kind = "naive"
          \* now - last_updated: TypeError, offset-naive and offset-aware
          THEN [raised |-> TRUE, status |-> loaded]
          ELSE IF RoundTenths(age) < STALENESS_HOURS * 10
          THEN [raised |-> FALSE, status |->
                  [loaded EXCEPT !.age_hours = FormatHours(age), !.fresh = TRUE,
                                 !.message = "Cache is fresh (" \o FormatHours(age)
                                             \o " hours old)"]]
          ELSE [raised |-> FALSE, status |->
                  [loaded EXCEPT !.age_hours = FormatHours(age),
                                 !.message = "Cache is stale (" \o FormatHours(age)
                                     \o " hours old, threshold is "
                                     \o ToString(STALENESS_HOURS)
                                     \o "h). Consider running /midnight:sync-releases"]]

\* status = get_cache_status(); an uncaught exception ends the interpreter
\* with a traceback and exit code 1
cache_main_get_status ==
    /\ pc = "start"
    /\ LET r == get_cache_status(fileStatus, input, Now)
       IN  IF r.raised
           THEN /\ out' = <<"Traceback (most recent call last):">>
                /\ Exit(1)
                /\ UNCHANGED result
           ELSE /\ result' = r.status
                /\ pc' = "status"
                /\ UNCHANGED <<out, exitCode>>
    /\ UNCHANGED <<ioVars, disclosureVars, circuits, analyses,
                   total_project_constraints, input>>

\* print(json.dumps(status, indent=2)), the document written as the mapping
\* it encodes; then the exit code
cache_main_exit ==
    /\ pc = "status"
    /\ out' = <<result>>
    /\ IF result.fresh THEN Exit(0)
       ELSE IF result.exists THEN Exit(1)
       ELSE Exit(2)
    /\ UNCHANGED <<ioVars, disclosureVars, circuits, analyses,
                   total_project_constraints, functionVars>>

MaxSkew == 12

\* ages in minutes: within MaxSkew of the threshold, a cache just written, one
\* stamped in the future and one long out of date
Ages ==
    {m \in ({STALENESS_HOURS * 60 + d : d \in (0 - MaxSkew)..MaxSkew}
            \cup {0, 1, -2, -40, 6000}) : m % 6 # 3}

\* what json.load can return for the metadata file
Metadata ==
    [ lastUpdated : [kind : {"aware", "naive"}, instant : {Now - m : m \in Ages}]
                    \cup [kind : {"absent", "empty", "invalid"}, instant : {0}],
      gitCommit : {"None", "0a1b2c3"} ]

InitCache ==
    /\ argv = <<>> /\ fileText = ""
    /\ fileStatus \in {"missing", "corrupted", "ok"}
    /\ input \in IF fileStatus = "ok" THEN Metadata
                 ELSE {[lastUpdated |-> [kind |-> "absent", instant |-> 0],
                        gitCommit |-> "None"]}
    /\ pc = "start" /\ out = <<>> /\ exitCode = -1
    /\ result = EmptyStatus
    /\ content = "" /\ lines = <<>> /\ emitted = <<>> /\ issues = <<>>
    /\ circuits = <<>> /\ analyses = <<>> /\ total_project_constraints = 0

NextCache == cache_main_get_status \/ cache_main_exit

SpecCache == InitCache /\ [][NextCache]_vars

----------------------------------------------------------------------------
(* Functions applied on their own                                          *)

\* the variables of the scripts' main, unused here
Idle ==
    /\ argv = <<>> /\ fileStatus = "missing" /\ fileText = ""
    /\ content = "" /\ lines = <<>> /\ emitted = <<>> /\ issues = <<>>
    /\ out = <<>> /\ exitCode = -1
    /\ circuits = <<>> /\ analyses = <<>> /\ total_project_constraints = 0

mainVars == <<argv, fileStatus, fileText, content, lines, emitted, issues, out,
              exitCode, circuits, analyses, total_project_constraints>>

MaxWidth == 120

\* type signatures, as the declaration pattern captures them: a name with one
\* optional generic parameter list
TypeSignatures ==
    {"Uint<" \o ToString(w) \o ">" : w \in 0..MaxWidth}
    \cup { "Boolean", "Field", "Bytes<32>", "Enum<Color>", "Color", "Opaque<string>",
           "Vector<64, Boolean>", "Maybe<Field>", "Uint<0..15>" }

InitEntropy ==
    /\ Idle
    /\ pc = "call"
    /\ input \in TypeSignatures
    /\ result = ""

call_is_low_entropy_type ==
    /\ pc = "call"
    /\ result' = is_low_entropy_type(input)
    /\ pc' = "returned"
    /\ UNCHANGED <<mainVars, input>>

SpecEntropy == InitEntropy /\ [][call_is_low_entropy_type]_vars

MaxCount == 2

\* the values count_operations can return, with every count at most MaxCount
OperationCounts ==
    { ops \in [ hash_operations : 0..MaxCount, sha256_operations : 0..MaxCount,
                ec_operations : 0..MaxCount, merkle_proofs : 0..MaxCount,
                merkle_depth : {0, 1, 20, 24},
                inequality_comparisons : 0..MaxCount,
                equality_comparisons : 0..MaxCount,
                loop_iterations : {-3, 0, 1, 57},
                collection_accesses : 0..MaxCount ] :
        ops.merkle_proofs = 0 => ops.merkle_depth = 0 }

InitCost ==
    /\ Idle
    /\ pc = "call"
    /\ input \in OperationCounts
    /\ result = ""

call_estimate_constraints ==
    /\ pc = "call"
    /\ result' = estimate_constraints(input)
    /\ pc' = "returned"
    /\ UNCHANGED <<mainVars, input>>

SpecCost == InitCost /\ [][call_estimate_constraints]_vars

MaxBodyLines == 4

\* lines of every net brace balance from -2 to +1, three of them circuit headers
CircuitLines ==
    { "circuit f(): [] {",
      "export circuit g(a: Field): Field { return a; }",
      "}",
      "  } }",
      "circuit h(): [] { } }" }

InitCircuits ==
    /\ Idle
    /\ pc = "call"
    /\ input \in Texts(CircuitLines, MaxBodyLines)
    /\ result = <<>>

call_find_circuits ==
    /\ pc = "call"
    /\ result' = find_circuits(input)
    /\ pc' = "returned"
    /\ UNCHANGED <<mainVars, input>>

SpecCircuits == InitCircuits /\ [][call_find_circuits]_vars

MaxBodyStatements == 3

\* statements of a circuit body: Merkle-structure references with a depth
\* literal, with depth 0 and with a depth that is no literal, and range loops
\* in both directions
BodyStatements ==
    { "  a = MerkleTree<24>;",
      "  b = MerkleTreeClient<8>;",
      "  c = MerkleTree<N>;",
      "  d = MerkleTree<0>;",
      "  for i in 60..3 { s = v[i]; }",
      "  for j in 0..5 { t = hash(j); }" }

InitOperations ==
    /\ Idle
    /\ pc = "call"
    /\ input \in Texts(BodyStatements, MaxBodyStatements)
    /\ result = <<>>

\* ops = count_operations(body); total, breakdown = estimate_constraints(ops);
\* optimizations = suggest_optimizations(ops, body), for the body `input`
call_count_operations ==
    /\ pc = "call"
    /\ result' = CircuitAnalysis(<<"f", 1, input>>)
    /\ pc' = "returned"
    /\ UNCHANGED <<mainVars, input>>

SpecOperations == InitOperations /\ [][call_count_operations]_vars

\* operation counts on both sides of each threshold of the advisor
AdviceCounts ==
    { [ hash_operations |-> h, sha256_operations |-> s, ec_operations |-> 0,
        merkle_proofs |-> IF d > 0 THEN 1 ELSE 0, merkle_depth |-> d,
        inequality_comparisons |-> c, equality_comparisons |-> 0,
        loop_iterations |-> l, collection_accesses |-> 0 ] :
        h \in {0, 2, 3}, s \in {0, 1}, d \in {0, 20, 21}, c \in {0, 5, 6},
        l \in {-57, 50, 51} }

\* bodies with an accessor call, with get_ inside a longer identifier only, and
\* without the text
AdviceBodies ==
    {"{ return hash(get_c()); }", "{ return hash(budget_); }", "{ return hash(c); }"}

InitAdvice ==
    /\ Idle
    /\ pc = "call"
    /\ input \in [ops : AdviceCounts, circuit_body : AdviceBodies]
    /\ result = <<>>

call_suggest_optimizations ==
    /\ pc = "call"
    /\ result' = suggest_optimizations(input.ops, input.circuit_body)
    /\ pc' = "returned"
    /\ UNCHANGED <<mainVars, input>>

SpecAdvice == InitAdvice /\ [][call_suggest_optimizations]_vars

MaxSourceLines == 3

\* two declarations, and usage lines on which every rule fires, on which the
\* return rule alone fires, and on which `return` or `disclose` is part of a
\* longer identifier
ViolationLines ==
    { "witness getAge(): Uint<8>;",
      "witness get_bal(): Uint<32>;",
      "  if (get_bal() > 0) { return store.write(persistentHash(getAge())); }",
      "  c.increment(getAge()); m.insert(get_bal());",
      "  const returned = getAge();",
      "  return undisclosed(getAge());",
      "  return m.set(disclose(getAge()));" }

InitViolations ==
    /\ Idle
    /\ pc = "call"
    /\ input \in Texts(ViolationLines, MaxSourceLines)
    /\ result = <<>>

\* check_disclosure_violations(content, lines) with lines = content.split('\n')
call_check_disclosure_violations ==
    /\ pc = "call"
    /\ result' = check_disclosure_violations(input, Split(input))
    /\ pc' = "returned"
    /\ UNCHANGED <<mainVars, input>>

SpecViolations == InitViolations /\ [][call_check_disclosure_violations]_vars

MaxUsageLines == 3

\* lines with one call, with two calls, with the name inside longer
\* identifiers, with a call that has an argument, with a qualified call, and
\* the declaration itself
UsageTexts ==
    { "  a = getAge();",
      "  b = getAge() + getAge ( );",
      "  c = xgetAge() + getAgeOf();",
      "  d = getAge(1) + obj.getAge;",
      "  e = my.getAge( );",
      "witness getAge(): Field;" }

WitnessNames == {"getAge", "Age", "getAgeOf"}

InitUsages ==
    /\ Idle
    /\ pc = "call"
    /\ input \in [content : Texts(UsageTexts, MaxUsageLines), witness_name : WitnessNames]
    /\ result = <<>>

call_find_witness_usages ==
    /\ pc = "call"
    /\ result' = find_witness_usages(input.content, input.witness_name)
    /\ pc' = "returned"
    /\ UNCHANGED <<mainVars, input>>

SpecUsages == InitUsages /\ [][call_find_witness_usages]_vars

MaxDeclarationLines == 3

\* declarations of a new name, of a name declared before, two on one line and
\* with parameters, and a line without a declaration
DeclarationTexts ==
    { "witness getAge(): Uint<8>;",
      "witness getAge(): Field;",
      "witness a(): Field; witness b(): Boolean;",
      "export witness get_bal(n: Field): Vector<4, Field> ;",
      "  const x = getAge();" }

InitDeclarations ==
    /\ Idle
    /\ pc = "call"
    /\ input \in Texts(DeclarationTexts, MaxDeclarationLines)
    /\ result = <<>>

call_find_witness_declarations ==
    /\ pc = "call"
    /\ result' = find_witness_declarations(input)
    /\ pc' = "returned"
    /\ UNCHANGED <<mainVars, input>>

SpecDeclarations == InitDeclarations /\ [][call_find_witness_declarations]_vars

MaxScanLines == 3

\* find_circuits one iteration of its outer loop at a time: result holds the
\* index i (1-based), the circuits appended so far and the number of outer
\* iterations done
InitScan ==
    /\ Idle
    /\ pc = "scan"
    /\ input \in Texts(CircuitLines, MaxScanLines)
    /\ result = [i |-> 1, circuits |-> <<>>, iterations |-> 0]

\* an iteration of `while i < len(lines)` on a line that matches the pattern
find_circuits_header ==
    /\ pc = "scan"
    /\ result.i <= Len(Split(input))
    /\ result.iterations <= Len(Split(input))
    /\ LET ls == Split(input)
           h == result.i
           m == SearchGroups(circuit_pattern, ls[h])
       IN  /\ m # <<>>
           /\ LET j == ResumeIndex(ls, h)
                  body_lines == <<Sub(ls[h], m[4] - 1, Len(ls[h]))>>
                                \o SubSeq(ls, h + 1, j - 1)
              IN  result' = [i |-> j,
                             circuits |-> Append(result.circuits,
                                 <<Sub(ls[h], m[2], m[3] - 1), h, Join(body_lines)>>),
                             iterations |-> result.iterations + 1]
    /\ UNCHANGED <<mainVars, pc, input>>

\* an iteration on a line that does not match: i += 1
find_circuits_other_line ==
    /\ pc = "scan"
    /\ result.i <= Len(Split(input))
    /\ result.iterations <= Len(Split(input))
    /\ SearchGroups(circuit_pattern, Split(input)[result.i]) = <<>>
    /\ result' = [result EXCEPT !.i = @ + 1, !.iterations = @ + 1]
    /\ UNCHANGED <<mainVars, pc, input>>

\* the loop condition fails: return circuits
find_circuits_return ==
    /\ pc = "scan"
    /\ result.i > Len(Split(input))
    /\ pc' = "returned"
    /\ UNCHANGED <<mainVars, input, result>>

NextScan == find_circuits_header \/ find_circuits_other_line \/ find_circuits_return

SpecScan == InitScan /\ [][NextScan]_vars

\* an iteration of the outer loop
ScanIteration == find_circuits_header \/ find_circuits_other_line
\* the loop condition `i < len(lines)` holds: an iteration can be taken
ScanPending == pc = "scan" /\ result.i <= Len(Split(input))

\* the loop is sequential code, so a step that can be taken is taken: weak
\* fairness of the return and of the iteration, the latter with its enabling
\* condition written out as ScanPending
SpecScanFair ==
    /\ SpecScan
    /\ WF_vars(find_circuits_return)
    /\ ([]<>(~ScanPending) \/ []<><<ScanIteration>>_vars)

MaxDeclaredLines == 3

\* declarations with an empty and with a blank parameter list, two of them of
\* witnesses whose names contain `return` and `persistentHash`, a declaration
\* with a parameter, and a usage line inside a circuit
DeclaredLines ==
    { "witness getAge(): Uint<8>;",
      "witness returnAge( ): Uint<8>;",
      "witness persistentHashOf(): Boolean;",
      "witness get_bal(n: Field): Field;",
      "  return store.write(persistentHash(getAge()));" }

InitDeclared ==
    /\ Idle
    /\ pc = "call"
    /\ input \in Texts(DeclaredLines, MaxDeclaredLines)
    /\ result = <<>>

SpecDeclared == InitDeclared /\ [][call_check_disclosure_violations]_vars

----------------------------------------------------------------------------
(* Properties                                                              *)

\* the invocation names a .compact file
GoodArguments == Len(argv) >= 1 /\ EndsWith(argv[1], ".compact")
\* the analysis runs: the arguments are good and the file can be read
AnalysisRuns == GoodArguments /\ fileStatus = "ok"

\* a printed line that reports an analysis result of check-disclosure.py
IsResultLine(l) ==
    \/ Contains(l, "[PASS]") \/ Contains(l, "No disclosure issues detected.")
    \/ Contains(l, "Potential violations:") \/ Contains(l, "  - Line ")
    \/ Contains(l, "Summary:")

\* C1: check-disclosure.py exits 0 exactly when the analysis ran and found no
\* issue, 1 exactly when it ran and found at least one, and 2 exactly on an
\* argument or file error (no argument, wrong extension, file not found, any
\* other read failure); with exit code 2 no analysis result is printed.
C1_DisclosureExitCodes ==
    /\ pc # "done" => exitCode = -1
    /\ pc = "done" =>
         /\ exitCode \in {0, 1, 2}
         /\ exitCode = 0 <=> (AnalysisRuns /\ emitted = <<>>)
         /\ exitCode = 1 <=> (AnalysisRuns /\ emitted # <<>>)
         /\ exitCode = 2 <=> ~AnalysisRuns
         /\ exitCode = 2 => \A k \in 1..Len(out) : ~IsResultLine(out[k])
         /\ exitCode # 2 => \E k \in 1..Len(out) : IsResultLine(out[k])

\* an unreadable .compact file has made the checker exit with code 2
C1_Witness ==
    /\ pc = "done" /\ GoodArguments /\ fileStatus = "unreadable" /\ exitCode = 2

\* C2 as stated: analyze-complexity.py exits 0 on a successful read, 1 on a
\* missing argument or a wrong extension, and 2 on every read failure.
C2_AsStated ==
    pc = "done" =>
        /\ exitCode = 0 <=> AnalysisRuns
        /\ exitCode = 1 <=> ~GoodArguments
        /\ exitCode = 2 <=> (GoodArguments /\ fileStatus # "ok")

\* C2 as amended: analyze-complexity.py exits 0 on a successful read (also
\* with no circuit in the file), 2 only when the file is not found, and 1 on a
\* missing argument, a wrong extension and any read error other than
\* file-not-found.
C2_ComplexityExitCodes ==
    /\ pc # "done" => exitCode = -1
    /\ pc = "done" =>
         /\ exitCode \in {0, 1, 2}
         /\ exitCode = 0 <=> AnalysisRuns
         /\ exitCode = 2 <=> (GoodArguments /\ fileStatus = "missing")
         /\ exitCode = 1 <=> (~GoodArguments \/ (GoodArguments /\ fileStatus = "unreadable"))

\* an unreadable .compact file has made the analyzer exit with code 1
C2_Witness ==
    /\ pc = "done" /\ GoodArguments /\ fileStatus = "unreadable" /\ exitCode = 1

\* no line of the file read declares a witness
NoDeclarations == find_witness_declarations(content) = <<>>

\* C3 as stated: a file without witness declarations yields an empty issue
\* list and exit code 0, whatever its lines contain.
C3_AsStated ==
    (pc = "done" /\ AnalysisRuns /\ NoDeclarations) =>
        (emitted = <<>> /\ exitCode = 0)

\* C3 as amended: a file without witness declarations yields no issue of the
\* witness rules: every issue is a High control-flow issue on a line that
\* matches the control-flow pattern; the list is empty and the exit code 0
\* exactly when no line matches that pattern, and the exit code is 1 otherwise.
C3_NoDeclarations ==
    (pc = "done" /\ AnalysisRuns /\ NoDeclarations) =>
        LET flagged == {i \in 1..Len(lines) : Search(control_flow_pattern, lines[i])}
        IN  /\ \A k \in 1..Len(emitted) :
                 /\ emitted[k].severity = "high"
                 /\ emitted[k].description = R4Description
                 /\ emitted[k].line \in flagged
            /\ emitted = <<>> <=> flagged = {}
            /\ exitCode = 0 <=> flagged = {}
            /\ exitCode = 1 <=> flagged # {}

\* a file without declarations has been reported with an issue, exit code 1
C3_Witness ==
    /\ pc = "done" /\ AnalysisRuns /\ NoDeclarations
    /\ emitted # <<>> /\ exitCode = 1

IsControlFlowIssue(e) == e.severity = "high" /\ e.description = R4Description

\* the emitted High control-flow issues on line i
ControlFlowIssuesOn(i) ==
    {k \in 1..Len(emitted) : emitted[k].line = i /\ IsControlFlowIssue(emitted[k])}

\* an `if` keyword followed, later on the line, by a zero-argument call of an
\* identifier that starts with get_
IfOnGetCall ==
    Cat(<<WordB, Lit("if"), WordB, Star(AnyChar), WordB, Lit("get_"),
          Star(Cls(WordChar)), Star(Cls(Space)), Lit("("), Star(Cls(Space)), Lit(")")>>)

\* C4 as stated: every line with an `if` whose condition holds a zero-argument
\* call of a get_ identifier has exactly one High control-flow issue, and every
\* other line has none.
C4_AsStated ==
    (pc = "done" /\ AnalysisRuns) =>
        \A i \in 1..Len(lines) :
            Cardinality(ControlFlowIssuesOn(i))
              = IF Search(IfOnGetCall, lines[i]) THEN 1 ELSE 0

\* the declarations among decls whose name is declared once
DeclaredOnce(decls) ==
    {d \in {decls[k] : k \in 1..Len(decls)} :
        Cardinality({k \in 1..Len(decls) : decls[k][1] = d[1]}) = 1}
UsageLines(name) ==
    LET usages == find_witness_usages(content, name)
    IN  {usages[k][1] : k \in 1..Len(usages)}

\* the Critical issues on line i that name the witness d and its declared type
CriticalIssuesOn(i, d) ==
    {k \in 1..Len(emitted) :
        /\ emitted[k].line = i
        /\ emitted[k].severity = "critical"
        /\ Contains(emitted[k].description, "'" \o d[1] \o "'")
        /\ Contains(emitted[k].description, "(" \o d[3] \o ")")}

HasHashCall(line) == Search(call_pattern("persistentHash"), line)
HasHashText(line) == Contains(line, "persistentHash")

\* the low-entropy rule; a line counts as hashing when it holds a call of
\* persistentHash (callOnly) or the text persistentHash (otherwise)
LowEntropyRule(callOnly) ==
    (pc = "done" /\ AnalysisRuns) =>
        \A d \in DeclaredOnce(find_witness_declarations(content)) :
            LET used == UsageLines(d[1])
                low  == is_low_entropy_type(d[3])
            IN  \A i \in 1..Len(lines) :
                    LET hashed == IF callOnly THEN HasHashCall(lines[i])
                                  ELSE HasHashText(lines[i])
                    IN  /\ Cardinality(CriticalIssuesOn(i, d))
                             = IF i \in used /\ hashed /\ low THEN 1 ELSE 0
                        /\ ~low => CriticalIssuesOn(i, d) = {}

\* C5 as stated: for a witness declared once, a usage line has exactly one
\* Critical issue naming the witness and its type if and only if the line
\* contains a call of persistentHash and the type is low-entropy; otherwise none.
C5_AsStated == LowEntropyRule(TRUE)

\* C5 as amended: for a witness declared once, a usage line has exactly one
\* Critical issue naming the witness and its type if and only if the line
\* contains the text persistentHash (a call or not) and the type is
\* low-entropy; a witness of a normal-entropy type has no Critical issue, and
\* a disclose marker on the line does not suppress the issue.
C5_LowEntropyHash == LowEntropyRule(FALSE)

\* a Critical issue has been emitted on a line that carries a disclose marker
C5_Witness ==
    /\ pc = "done"
    /\ \E k \in 1..Len(emitted) :
          /\ emitted[k].severity = "critical"
          /\ Contains(lines[emitted[k].line], "disclose")
          /\ \E d \in DeclaredOnce(find_witness_declarations(content)) :
                 k \in CriticalIssuesOn(emitted[k].line, d)

\* Low entropy as the classification is described: Uint<w> for w in 1..19,
\* Boolean, or an Enum<...> type
DescribedLow(t) ==
    \/ \E w \in 1..19 : t = "Uint<" \o ToString(w) \o ">"
    \/ t = "Boolean"
    \/ (Len(t) > 6 /\ Sub(t, 1, 5) = "Enum<" /\ Char(t, Len(t)) = ">")

\* C6 as stated: is_low_entropy_type returns Low exactly for Uint<1>..Uint<19>,
\* Boolean and Enum<...>, and Normal for every other type signature.
C6_AsStated ==
    pc = "returned" => (result = DescribedLow(input))

\* the rank of a severity in the printed order
SeverityRank(severity) ==
    CASE severity = "critical" -> 0
      [] severity = "high"     -> 1
      [] severity = "medium"   -> 2
      [] OTHER                 -> 3

IsIssueLine(l) == Contains(l, "  - Line ")
OfRank(xs, r) == SelectSeq(xs, LAMBDA x : SeverityRank(x.severity) = r)

\* C7: the printed issues are the emitted issues, reordered so that Critical
\* comes before High before Medium before anything else, two issues of equal
\* severity keeping their emitted order; the summary counts the issues printed.
C7_ReportOrder ==
    (pc = "done" /\ exitCode = 1) =>
        LET printed == SelectSeq(out, IsIssueLine)
        IN  /\ Len(issues) = Len(emitted)
            /\ \A r \in 0..3 : OfRank(issues, r) = OfRank(emitted, r)
            /\ \A a, b \in 1..Len(issues) :
                   a < b => SeverityRank(issues[a].severity) <= SeverityRank(issues[b].severity)
            /\ printed = [k \in 1..Len(issues) |-> IssueLine(issues[k])]
            /\ out[Len(out)] = "Summary: " \o ToString(Len(printed))
                                \o " potential disclosure issues"

\* the sort has moved an issue, and two different issues of one severity were
\* emitted
C7_Witness ==
    /\ pc = "done" /\ exitCode = 1
    /\ issues # emitted
    /\ \E a, b \in 1..Len(emitted) :
          a < b /\ emitted[a].severity = emitted[b].severity /\ emitted[a] # emitted[b]

MerkleOnly(analysis, body) ==
    /\ analysis.operations.merkle_proofs = 1
    /\ analysis.operations.merkle_depth >= 1
    /\ analysis.operations.hash_operations = 0
    /\ analysis.operations.sha256_operations = 0
    /\ analysis.operations.ec_operations = 0
    /\ analysis.operations.equality_comparisons = 0
    /\ analysis.operations.loop_iterations = 0
    /\ analysis.operations.collection_accesses = 0
    /\ CountChar(body, "<") = 1 /\ CountChar(body, ">") = 1

\* C9 as stated: a circuit whose body references MerkleTree<d> once, d >= 1,
\* and nothing else is estimated at d * 1000.
C9_AsStated ==
    \A k \in 1..Len(analyses) :
        MerkleOnly(analyses[k], circuits[k][3]) =>
            analyses[k].estimated_constraints = analyses[k].operations.merkle_depth * 1000

\* the sum of the estimates of the circuits analysed
RECURSIVE SumOfEstimates(_, _)
SumOfEstimates(as, k) ==
    IF k > Len(as) THEN 0
    ELSE as[k].estimated_constraints + SumOfEstimates(as, k + 1)

DescribedClass(sum) ==
    IF sum < 1000 THEN "Low"
    ELSE IF sum < 10000 THEN "Medium"
    ELSE IF sum < 50000 THEN "High"
    ELSE "Very High"

ClassRank(class) ==
    CASE class = "Low" -> 0 [] class = "Medium" -> 1 [] class = "High" -> 2
      [] class = "Very High" -> 3

ClassBoundaries == {0, 999, 1000, 1001, 9999, 10000, 10001, 49999, 50000, 50001}

\* C10: the class printed is that of the sum of the estimates of all circuits
\* of the file: Low below 1000, Medium below 10000, High below 50000, Very High
\* from 50000 on; a larger sum never has a lower class.
C10_OverallClass ==
    (pc = "done" /\ AnalysisRuns /\ circuits # <<>>) =>
        LET sum == SumOfEstimates(analyses, 1)
            overall == SelectSeq(out, LAMBDA l : Contains(l, "Overall complexity:"))
        IN  /\ Len(analyses) = Len(circuits)
            /\ overall = << GREEN \o "Overall complexity:" \o NC \o " "
                            \o DescribedClass(sum) \o " (~" \o Commas(sum)
                            \o " estimated constraints)" >>
            /\ \A t \in ClassBoundaries :
                   /\ classify_complexity(t) = DescribedClass(t)
                   /\ t <= sum => ClassRank(classify_complexity(t))
                                    <= ClassRank(classify_complexity(sum))
                   /\ sum <= t => ClassRank(classify_complexity(sum))
                                    <= ClassRank(classify_complexity(t))

\* two circuits, each below 50000, have been classified Very High together
C10_Witness ==
    /\ pc = "done" /\ Len(analyses) = 2
    /\ \A k \in 1..2 : analyses[k].estimated_constraints < 50000
    /\ SumOfEstimates(analyses, 1) >= 50000
    /\ \E k \in 1..Len(out) : Contains(out[k], "Overall complexity:")
                              /\ Contains(out[k], "Very High")

----------------------------------------------------------------------------
(* find_circuits                                                           *)

\* the number of source lines a circuit's body was taken from
BodyLineCount(circuit) == CountChar(circuit[3], "\n") + 1
\* the last source line of a circuit's body
BodyLastLine(circuit) == circuit[2] + BodyLineCount(circuit) - 1

\* C11: the circuits find_circuits returns are in file order and do not
\* overlap: start lines are strictly increasing and lie in the file, and the
\* lines of one circuit's body end strictly before the next circuit starts
C11_FileOrder ==
    pc = "returned" =>
        /\ \A k \in 1..Len(result) :
               /\ result[k][2] \in 1..Len(Split(input))
               /\ BodyLastLine(result[k]) <= Len(Split(input))
        /\ \A k \in 1..(Len(result) - 1) :
               /\ result[k][2] < result[k + 1][2]
               /\ BodyLastLine(result[k]) < result[k + 1][2]

\* a circuit whose body spans several lines, a header line among them, is
\* followed by another circuit
C11_Witness ==
    /\ pc = "returned"
    /\ Len(result) >= 2
    /\ \E k \in 1..(Len(result) - 1) :
           /\ BodyLineCount(result[k]) >= 3
           /\ Contains(result[k][3], "circuit")

\* the depth counter after line j of a circuit whose header is line h: the
\* net brace balance of the lines h..j
RECURSIVE DepthAfter(_, _, _)
DepthAfter(ls, h, j) ==
    IF j < h THEN 0 ELSE DepthAfter(ls, h, j - 1) + BraceBalance(ls[j])

\* the position of the first opening brace of a line
OpeningBrace(line) == Min({p \in 1..Len(line) : Char(line, p) = "{"})

\* the numbers of the lines that match the header pattern
HeaderLines(ls) == {i \in 1..Len(ls) : Search(Cat(circuit_pattern), ls[i])}

\* the text from the opening brace of line h through line last
BodyText(ls, h, last) ==
    Join(<<Sub(ls[h], OpeningBrace(ls[h]), Len(ls[h]))>> \o SubSeq(ls, h + 1, last))

\* circuit k starts at the first header after the body of circuit k - 1, and
\* no header follows the body of the last circuit
ResumesAfterBody(headers, found) ==
    /\ \A k \in 1..Len(found) :
           LET from == IF k = 1 THEN 1 ELSE BodyLastLine(found[k - 1]) + 1
           IN  /\ found[k][2] \in headers
               /\ found[k][2] >= from
               /\ \A i \in headers : i < from \/ found[k][2] <= i
    /\ \A i \in headers :
           found # <<>> /\ i <= BodyLastLine(found[Len(found)])

\* line `last` is the first after which the counter is zero
ClosedAtZero(ls, h, last) ==
    /\ DepthAfter(ls, h, last) = 0
    /\ \A j \in h..(last - 1) : DepthAfter(ls, h, j) # 0

\* line `last` is the first after which the counter is not positive, or the
\* last line of the file with the counter positive after every line
ClosedOrTruncated(ls, h, last) ==
    /\ \A j \in h..(last - 1) : DepthAfter(ls, h, j) > 0
    /\ DepthAfter(ls, h, last) <= 0 \/ last = Len(ls)

\* the body of each circuit runs from the header's opening brace through its
\* last line, which closes it: at zero exactly, or as ClosedOrTruncated says
BraceMatching(ls, found, exactlyZero) ==
    /\ ResumesAfterBody(HeaderLines(ls), found)
    /\ \A k \in 1..Len(found) :
           LET h == found[k][2]
               last == BodyLastLine(found[k])
           IN  /\ found[k][3] = BodyText(ls, h, last)
               /\ IF exactlyZero THEN ClosedAtZero(ls, h, last)
                  ELSE ClosedOrTruncated(ls, h, last)

\* C12 as stated: the body of every circuit ends at the first line after
\* which the depth counter has returned to zero
C12_AsStated ==
    pc = "returned" => BraceMatching(Split(input), result, TRUE)

\* C12: the depth counter starts at the header line's net brace balance and
\* each following line adds its own; the body runs from the header's opening
\* brace through the first line after which the counter is not positive, or
\* through the last line of the file when there is no such line; the search
\* for the next header resumes on the line after the body
C12_BraceDepth ==
    pc = "returned" => BraceMatching(Split(input), result, FALSE)

\* a body that a later line closes by dropping the counter below zero, followed
\* by a circuit whose body runs to the end of the file with the counter positive
C12_Witness ==
    /\ pc = "returned"
    /\ Len(result) = 2
    /\ BodyLineCount(result[1]) >= 2
    /\ DepthAfter(Split(input), result[1][2], BodyLastLine(result[1])) < 0
    /\ BodyLineCount(result[2]) >= 2
    /\ DepthAfter(Split(input), result[2][2], BodyLastLine(result[2])) > 0

\* the header on line h opens a body (the counter is positive after it) and
\* the counter never is zero after a later line (positiveOnly FALSE), or is
\* positive after every line through the last
Unterminated(ls, h, positiveOnly) ==
    /\ DepthAfter(ls, h, h) > 0
    /\ \A j \in h..Len(ls) :
           IF positiveOnly THEN DepthAfter(ls, h, j) > 0 ELSE DepthAfter(ls, h, j) # 0

\* circuit k is the last one returned, its body is every line from its header's
\* opening brace through the end of the file, and no later header line is the
\* start of a circuit
MergedToEndOfFile(ls, found, k) ==
    /\ k = Len(found)
    /\ BodyLastLine(found[k]) = Len(ls)
    /\ found[k][3] = BodyText(ls, found[k][2], Len(ls))
    /\ \A i \in HeaderLines(ls) : \A l \in 1..Len(found) :
           i > found[k][2] => found[l][2] # i

\* every circuit returned whose header leaves the counter unterminated is
\* merged with the rest of the file
Degrades(positiveOnly) ==
    pc = "returned" =>
        \A k \in 1..Len(result) :
            Unterminated(Split(input), result[k][2], positiveOnly)
                => MergedToEndOfFile(Split(input), result, k)

\* C24 as stated: if after a matched circuit header the depth counter never
\* returns to zero, find_circuits takes every remaining line through the end
\* of the file as that circuit's body and returns it as the last circuit, and
\* no later header is reported as a separate circuit
C24_AsStated == Degrades(FALSE)

\* C24: if after a matched circuit header the depth counter stays positive
\* after every line through the end of the file, find_circuits takes every
\* remaining line as that circuit's body and returns it as the last circuit,
\* and no later header is reported as a separate circuit
C24_Truncation == Degrades(TRUE)

\* the last circuit returned is unterminated and a later header line lies in
\* its body
C24_Witness ==
    /\ pc = "returned"
    /\ result # <<>>
    /\ Unterminated(Split(input), result[Len(result)][2], TRUE)
    /\ \E i \in HeaderLines(Split(input)) : i > result[Len(result)][2]
    /\ Contains(result[Len(result)][3], "circuit g")

----------------------------------------------------------------------------
(* count_operations                                                        *)

OperationKinds ==
    { "hash_operations", "sha256_operations", "merkle_proofs", "merkle_depth",
      "inequality_comparisons", "equality_comparisons", "loop_iterations",
      "ec_operations", "collection_accesses" }

\* C13 as stated: every value of the mapping count_operations returns is a
\* non-negative integer, the loop-iteration sum included
C13_AsStated ==
    pc = "returned" =>
        /\ DOMAIN result.operations = OperationKinds
        /\ \A kind \in OperationKinds : result.operations[kind] \in Nat

\* the text lit stands in body at position p
StandsAt(body, p, lit) ==
    /\ p + Len(lit) - 1 <= Len(body)
    /\ Sub(body, p, p + Len(lit) - 1) = lit

\* for a Merkle-structure reference at position p, the position after its `<`;
\* 0 when no reference stands at p
ParameterStart(body, p) ==
    IF StandsAt(body, p, "MerkleTree<") THEN p + Len("MerkleTree<")
    ELSE IF StandsAt(body, p, "MerkleTreeClient<") THEN p + Len("MerkleTreeClient<")
    ELSE 0

\* the first position at or after q that holds no digit
DigitsEnd(body, q) ==
    Min({r \in q..(Len(body) + 1) : r = Len(body) + 1 \/ Char(body, r) \notin Digit})

\* the positions of the Merkle-structure references of a body
MerkleReferences(body) == {p \in 1..Len(body) : ParameterStart(body, p) # 0}

\* those whose parameter is an integer literal
DepthReferences(body) ==
    {p \in MerkleReferences(body) :
        LET q == ParameterStart(body, p)
            r == DigitsEnd(body, q)
        IN  r > q /\ r <= Len(body) /\ Char(body, r) = ">"}

\* the depth literal of the reference at p
DepthLiteral(body, p) ==
    LET q == ParameterStart(body, p)
    IN  ParseInt(Sub(body, q, DigitsEnd(body, q) - 1))

\* what the Merkle proofs add to the estimate of an analysis: the estimate
\* less the terms of the other operation kinds
MerkleCost(analysis) ==
    LET ops == analysis.operations
    IN  analysis.estimated_constraints
        - ops.hash_operations * 1000 - ops.sha256_operations * 25000
        - ops.ec_operations * 7500 - ops.inequality_comparisons * 254
        - ops.collection_accesses * 254

\* C14 as stated: for a body with the references MerkleTree<d1>, ...,
\* MerkleTree<dn>, n >= 1, merkle_proofs is n, merkle_depth is max(d1..dn) and
\* the Merkle cost term is n * max(d1..dn) * 1000
C14_AsStated ==
    (pc = "returned" /\ DepthReferences(input) # {}) =>
        LET n == Cardinality(DepthReferences(input))
            deepest == Max({DepthLiteral(input, p) : p \in DepthReferences(input)})
        IN  /\ result.operations.merkle_proofs = n
            /\ result.operations.merkle_depth = deepest
            /\ MerkleCost(result) = n * deepest * 1000

\* C15 as stated: a reference whose depth parameter is no integer literal is
\* still counted as a Merkle reference, and a body whose references are all of
\* that kind is costed 20 * 1000 for each of them
C15_AsStated ==
    (pc = "returned" /\ MerkleReferences(input) # DepthReferences(input)) =>
        /\ result.operations.merkle_proofs = Cardinality(MerkleReferences(input))
        /\ DepthReferences(input) = {} =>
               MerkleCost(result) = Cardinality(MerkleReferences(input)) * 20 * 1000

----------------------------------------------------------------------------
(* suggest_optimizations                                                   *)

\* the kind of a suggestion, in the order of the advisor's rules: SHA-256,
\* comparisons, loops, deep Merkle tree, off-circuit hashing; 0 for any other
SuggestionKind(suggestion) ==
    CASE Contains(suggestion, "replacing SHA256")          -> 1
      [] Contains(suggestion, "High comparison count")     -> 2
      [] Contains(suggestion, "Large loop detected")       -> 3
      [] Contains(suggestion, "Deep Merkle tree")          -> 4
      [] Contains(suggestion, "Multiple hash operations")  -> 5
      [] OTHER                                             -> 0

Suggested(suggestions, kind) ==
    \E k \in 1..Len(suggestions) : SuggestionKind(suggestions[k]) = kind

\* an identifier that begins with get_ occurs in the body
HasAccessor(body) == Search(Cat(<<WordB, Lit("get_")>>), body)

\* the advisor emits only its five suggestions, in rule order and each at most
\* once: SHA-256 iff sha256_operations > 0, comparisons iff
\* inequality_comparisons > 5, loops iff loop_iterations > 50, deep Merkle
\* tree iff merkle_depth > 20, off-circuit hashing iff hash_operations > 2
\* and get_ is present: as an accessor, or as text anywhere in the body
AdvisorRule(accessorOnly) ==
    pc = "returned" =>
        /\ \A k \in 1..Len(result) : SuggestionKind(result[k]) \in 1..5
        /\ \A k \in 1..(Len(result) - 1) :
               SuggestionKind(result[k]) < SuggestionKind(result[k + 1])
        /\ Suggested(result, 1) <=> input.ops.sha256_operations > 0
        /\ Suggested(result, 2) <=> input.ops.inequality_comparisons > 5
        /\ Suggested(result, 3) <=> input.ops.loop_iterations > 50
        /\ Suggested(result, 4) <=> input.ops.merkle_depth > 20
        /\ Suggested(result, 5) <=>
               /\ input.ops.hash_operations > 2
               /\ IF accessorOnly THEN HasAccessor(input.circuit_body)
                  ELSE Contains(input.circuit_body, "get_")

\* C16 as stated: the off-circuit hashing suggestion is made iff
\* hash_operations > 2 and an accessor matching get_ is present in the body
C16_AsStated == AdvisorRule(TRUE)

\* C16: the advisor's thresholds, with the off-circuit hashing suggestion made
\* iff hash_operations > 2 and the text get_ occurs anywhere in the body
C16_Thresholds == AdvisorRule(FALSE)

\* counts exactly at the thresholds of two rules and just above those of two
\* others: only the latter two suggestions are made
C16_Witness ==
    /\ pc = "returned"
    /\ input.ops.inequality_comparisons = 5 /\ input.ops.merkle_depth = 20
    /\ input.ops.loop_iterations = 51 /\ input.ops.hash_operations = 3
    /\ ~HasAccessor(input.circuit_body)
    /\ Len(result) = 2
    /\ Suggested(result, 3) /\ Suggested(result, 5)

----------------------------------------------------------------------------
(* check_disclosure_violations                                             *)

\* the rule that made an issue: 1..3 for the witness rules, 4 for the
\* control-flow rule
RuleOf(issue) ==
    CASE issue.description = R4Description -> 4
      [] issue.severity = "critical"       -> 1
      [] issue.severity = "high"           -> 2
      [] issue.severity = "medium"         -> 3

\* the issue is about the witness of declaration d
Names(issue, d) == Contains(issue.description, "itness '" \o d[1] \o "' ")

\* issue x may come before issue y among the issues of one witness: an earlier
\* usage line, or the same line and an earlier rule (the ledger rule makes one
\* issue for each operation)
WithinWitnessOrder(x, y) ==
    \/ x.line < y.line
    \/ x.line = y.line /\ (RuleOf(x) < RuleOf(y) \/ (RuleOf(x) = 3 /\ RuleOf(y) = 3))

\* the issues fall into one block for each declaration, in declaration order,
\* block n ending at position cut[n], and a last block of control-flow issues
EmittedInBlocks(found, decls, cut) ==
    /\ cut[0] = 0
    /\ \A n \in 1..Len(decls) :
           /\ cut[n - 1] <= cut[n]
           /\ \A k \in (cut[n - 1] + 1)..cut[n] :
                  RuleOf(found[k]) \in 1..3 /\ Names(found[k], decls[n])
           /\ \A k, l \in (cut[n - 1] + 1)..cut[n] :
                  k < l => WithinWitnessOrder(found[k], found[l])
    /\ \A k \in (cut[Len(decls)] + 1)..Len(found) : RuleOf(found[k]) = 4
    /\ \A k, l \in (cut[Len(decls)] + 1)..Len(found) :
           k < l => found[k].line < found[l].line

\* C17: check_disclosure_violations emits the issues of an earlier-declared
\* witness before those of a later-declared one; within a witness by usage
\* line; within one witness and usage line R1, then R2, then R3; and all
\* control-flow (R4) issues after every witness issue, in line order
C17_EmissionOrder ==
    pc = "returned" =>
        LET decls == find_witness_declarations(input)
        IN  \E cut \in [0..Len(decls) -> 0..Len(result)] :
                EmittedInBlocks(result, decls, cut)

\* two witnesses with issues each, the first with issues of all three witness
\* rules on one line, and a control-flow issue
C17_Witness ==
    /\ pc = "returned"
    /\ Len(find_witness_declarations(input)) = 2
    /\ find_witness_declarations(input)[1][1] # find_witness_declarations(input)[2][1]
    /\ \E k \in 1..(Len(result) - 5) :
           /\ RuleOf(result[k]) = 1 /\ RuleOf(result[k + 1]) = 2
           /\ RuleOf(result[k + 2]) = 3
           /\ result[k].line = result[k + 2].line
           /\ Names(result[k + 2], find_witness_declarations(input)[1])
           /\ Names(result[k + 3], find_witness_declarations(input)[2])
    /\ RuleOf(result[Len(result)]) = 4

\* the word stands in the line as a whole token
HasToken(line, word) == Search(Cat(<<WordB, Lit(word), WordB>>), line)

\* the High `may flow to public output` issues on line i that name the witness
ReturnIssuesOn(found, i, name) ==
    {k \in 1..Len(found) :
        /\ found[k].line = i
        /\ found[k].severity = "high"
        /\ found[k].description
             = "Witness '" \o name \o "' may flow to public output without disclose()"}

\* the numbers of the lines find_witness_usages returns for the witness
UsageLinesIn(text, name) ==
    LET usages == find_witness_usages(text, name)
    IN  {usages[k][1] : k \in 1..Len(usages)}

\* the return rule: every pair of a declaration and one of its witness's usage
\* lines has one issue when the line returns undisclosed, and none otherwise;
\* `return` and `disclose` are looked for as tokens (tokensOnly) or as text
ReturnRule(tokensOnly) ==
    pc = "returned" =>
        LET decls == find_witness_declarations(input)
            ls == Split(input)
        IN  \A n \in 1..Len(decls) : \A i \in 1..Len(ls) :
                LET name == decls[n][1]
                    declared == Cardinality({m \in 1..Len(decls) : decls[m][1] = name})
                    returns == IF tokensOnly THEN HasToken(ls[i], "return")
                               ELSE Contains(ls[i], "return")
                    discloses == IF tokensOnly THEN HasToken(ls[i], "disclose")
                                 ELSE Contains(ls[i], "disclose")
                IN  Cardinality(ReturnIssuesOn(result, i, name))
                      = IF i \in UsageLinesIn(input, name) /\ returns /\ ~discloses
                        THEN declared ELSE 0

\* C20 as stated: a pair of a declaration and a usage line yields exactly one
\* High `may flow to public output` issue iff the line contains return as a
\* keyword and no disclose marker token; inside a longer identifier neither counts
C20_AsStated == ReturnRule(TRUE)

\* C20: a pair of a declaration and a usage line yields exactly one High `may
\* flow to public output` issue iff the line contains the text return and does
\* not contain the text disclose, as words or inside longer identifiers
C20_ReturnRule == ReturnRule(FALSE)

\* the issue is made for a usage line on which return is only part of a longer
\* identifier, and not for a usage line that returns the witness next to an
\* identifier that contains disclose
C20_Witness ==
    /\ pc = "returned"
    /\ \E i \in 1..Len(Split(input)) :
           /\ ~HasToken(Split(input)[i], "return")
           /\ ReturnIssuesOn(result, i, "getAge") # {}
    /\ \E i \in UsageLinesIn(input, "getAge") :
           /\ HasToken(Split(input)[i], "return")
           /\ ~HasToken(Split(input)[i], "disclose")
           /\ ReturnIssuesOn(result, i, "getAge") = {}

\* the ledger operations whose call form .<op>( stands on the line
OperationsOn(line) ==
    {k \in 1..Len(ledger_ops) : Contains(line, "." \o ledger_ops[k] \o "(")}

\* the Medium issues on line i that name the witness and ledger operation k
LedgerIssuesOn(found, i, name, k) ==
    {j \in 1..Len(found) :
        /\ found[j].line = i
        /\ found[j].severity = "medium"
        /\ found[j].description = R3Description(name, ledger_ops[k])}

\* the Critical persistentHash issues on line i that name the witness
HashIssuesOn(found, i, name) ==
    {j \in 1..Len(found) :
        /\ found[j].line = i
        /\ found[j].severity = "critical"
        /\ Contains(found[j].description, "witness '" \o name \o "' (")}

\* C23: R1, R2 and R3 are independent and cumulative on a usage line, and R3
\* contributes one Medium issue per matching ledger operation: a pair of a
\* declaration and a usage line without the text disclose has one Medium issue
\* for each operation name whose call form .<op>( is on the line, none for any
\* other operation and none when disclose is on the line, and its R1 and R2
\* issues are those their own conditions give, whatever R3 yields
C23_LedgerCumulative ==
    pc = "returned" =>
        LET decls == find_witness_declarations(input)
            ls == Split(input)
        IN  \A n \in 1..Len(decls) : \A i \in 1..Len(ls) :
                LET name == decls[n][1]
                    same == {m \in 1..Len(decls) : decls[m][1] = name}
                    used == i \in UsageLinesIn(input, name)
                    discloses == Contains(ls[i], "disclose")
                IN  /\ \A k \in 1..Len(ledger_ops) :
                           Cardinality(LedgerIssuesOn(result, i, name, k))
                             = IF used /\ ~discloses /\ k \in OperationsOn(ls[i])
                               THEN Cardinality(same) ELSE 0
                    /\ Cardinality(HashIssuesOn(result, i, name))
                          = IF used /\ Contains(ls[i], "persistentHash")
                            THEN Cardinality({m \in same : is_low_entropy_type(decls[m][3])})
                            ELSE 0
                    /\ Cardinality(ReturnIssuesOn(result, i, name))
                          = IF used /\ ~discloses /\ Contains(ls[i], "return")
                            THEN Cardinality(same) ELSE 0

\* one usage line of getAge carries two ledger operations and has a Medium
\* issue for each, and another has its R1, R2 and R3 issues together
C23_Witness ==
    /\ pc = "returned"
    /\ Len(find_witness_declarations(input)) = 1
    /\ \E i \in UsageLinesIn(input, "getAge") :
           /\ Cardinality(OperationsOn(Split(input)[i])) = 2
           /\ \A k \in OperationsOn(Split(input)[i]) :
                  Cardinality(LedgerIssuesOn(result, i, "getAge", k)) = 1
    /\ \E i \in UsageLinesIn(input, "getAge") :
           /\ HashIssuesOn(result, i, "getAge") # {}
           /\ ReturnIssuesOn(result, i, "getAge") # {}
           /\ \E k \in 1..Len(ledger_ops) : LedgerIssuesOn(result, i, "getAge", k) # {}

----------------------------------------------------------------------------
(* find_witness_usages, find_witness_declarations                          *)

\* every character of the line from position a through position b is white space
Blank(line, a, b) == \A r \in a..b : Char(line, r) \in Space

\* a zero-argument call of the name stands in the line at position p, the name
\* being a whole identifier: no identifier character before it, and after it
\* only white space up to `(` and `)`
CallAt(line, name, p) ==
    /\ StandsAt(line, p, name)
    /\ p = 1 \/ Char(line, p - 1) \notin WordChar
    /\ \E open \in (p + Len(name))..Len(line) : \E close \in (open + 1)..Len(line) :
           /\ Char(line, open) = "(" /\ Char(line, close) = ")"
           /\ Blank(line, p + Len(name), open - 1)
           /\ Blank(line, open + 1, close - 1)

HasCall(line, name) == \E p \in 1..Len(line) : CallAt(line, name, p)

\* C18: find_witness_usages returns, in increasing line order and each once,
\* exactly the lines that hold a zero-argument call of the name as a whole
\* identifier, however often the call occurs on the line
C18_UsageLocator ==
    pc = "returned" =>
        LET ls == Split(input.content)
        IN  /\ \A k \in 1..(Len(result) - 1) : result[k][1] < result[k + 1][1]
            /\ {result[k][1] : k \in 1..Len(result)}
                 = {i \in 1..Len(ls) : HasCall(ls[i], input.witness_name)}

\* a line with two calls is returned once, after a line on which the name
\* occurs only inside longer identifiers and which is not returned
C18_Witness ==
    /\ pc = "returned"
    /\ input.witness_name = "getAge"
    /\ Len(result) = 1
    /\ Len(Split(input.content)) >= 2
    /\ Contains(Split(input.content)[1], "xgetAge()")
    /\ result[1][1] = 2
    /\ Cardinality({p \in 1..Len(Split(input.content)[2]) :
                        CallAt(Split(input.content)[2], "getAge", p)}) = 2

\* the declarations that stand in the text, as re.findall counts them
TextualDeclarations(text) == FindAll(witness_pattern, text, 1)

\* C19 as stated: find_witness_declarations returns one record for every
\* textual match of the declaration pattern in the file, in file order and
\* without deduplicating by name, also when two declarations share one line
C19_AsStated ==
    pc = "returned" =>
        /\ Len(result) = Len(TextualDeclarations(input))
        /\ \A k \in 1..(Len(result) - 1) : result[k][2] <= result[k + 1][2]

----------------------------------------------------------------------------
(* main of both tools                                                      *)

\* a path is given and it does not end in .compact
WrongExtension == Len(argv) >= 1 /\ ~EndsWith(argv[1], ".compact")

\* what either tool prints and returns for a path of the wrong extension
Rejection ==
    IF input = "check-disclosure.py"
    THEN [code |-> 2,
          printed |-> <<RED \o "[FAIL]" \o NC \o " Disclosure Check: " \o argv[1],
                        "Error: Not a .compact file">>]
    ELSE [code |-> 1, printed |-> <<"Error: Not a .compact file: " \o argv[1]>>]

\* C21: in both tools a path that does not end in .compact is rejected before
\* the file is opened or parsed: the run never reaches the read, nothing is
\* read or analysed, and the exit code (2 for the disclosure checker, 1 for the
\* complexity analyzer) and the output are the same whatever the file's status
C21_ExtensionFirst ==
    WrongExtension =>
        /\ pc \in {"start", "extension", "done"}
        /\ content = "" /\ lines = <<>> /\ emitted = <<>> /\ circuits = <<>>
        /\ pc = "done" => (exitCode = Rejection.code /\ out = Rejection.printed)

\* the complexity analyzer has rejected a path of the wrong extension whose
\* file does not exist
C21_Witness ==
    /\ pc = "done" /\ WrongExtension
    /\ input = "analyze-complexity.py"
    /\ fileStatus = "missing"
    /\ exitCode = 1

----------------------------------------------------------------------------
(* check-cache-freshness.py: main                                          *)

\* the metadata was loaded and holds a timestamp with a UTC offset
Timestamped == fileStatus = "ok" /\ input.lastUpdated.kind = "aware"
\* the age of the metadata in minutes
AgeMinutes == Now - input.lastUpdated.instant

CacheFresh == Timestamped /\ AgeMinutes < STALENESS_HOURS * 60
CacheStale == Timestamped /\ AgeMinutes >= STALENESS_HOURS * 60
CacheMissing == fileStatus = "missing"
\* corrupted metadata, or a missing or invalid timestamp
CacheError ==
    \/ fileStatus = "corrupted"
    \/ fileStatus = "ok" /\ input.lastUpdated.kind \in {"absent", "empty", "invalid"}

\* C22 as stated: check-cache-freshness exits 0 when the cache is fresh (age
\* below 48 hours), 1 when it is stale or missing, and 2 on an error
\* (corrupted metadata, missing or invalid timestamp)
C22_AsStated ==
    pc = "done" =>
        /\ CacheFresh => exitCode = 0
        /\ (CacheStale \/ CacheMissing) => exitCode = 1
        /\ CacheError => exitCode = 2


----------------------------------------------------------------------------
(* find_circuits: the outer loop                                           *)

\* the line the outer index stands on is a circuit header
OnHeader == /\ result.i <= Len(Split(input))
            /\ Search(Cat(circuit_pattern), Split(input)[result.i])

\* one iteration of the outer loop moves the index forward: by one on a line
\* that does not match, and past the header on a line that does
IndexAdvances ==
    (pc = "scan" /\ pc' = "scan") =>
        /\ result'.i > result.i
        /\ result'.iterations = result.iterations + 1
        /\ ~OnHeader => result'.i = result.i + 1
        /\ OnHeader => result'.i >= result.i + 1

\* C25: find_circuits terminates on every finite input: the outer line index
\* strictly increases on every iteration of the outer loop (by one on a
\* non-matching line, to at least the line after the header on a match), the
\* loop makes at most as many iterations as there are lines, and the function
\* returns, with the circuits the extractor is specified to find
C25_Terminates ==
    /\ [][IndexAdvances]_vars
    /\ [](/\ result.iterations <= Len(Split(input))
          /\ result.i <= Len(Split(input)) + 1)
    /\ <>(pc = "returned" /\ result.circuits = find_circuits(input))

\* the scan has returned after fewer iterations than lines, one of them on a
\* header whose own braces leave the counter below zero and one on a header
\* with a body of several lines
C25_Witness ==
    /\ pc = "returned"
    /\ result.iterations < Len(Split(input))
    /\ \E k \in 1..Len(result.circuits) :
           BraceBalance(Split(input)[result.circuits[k][2]]) < 0
    /\ \E k \in 1..Len(result.circuits) : BodyLineCount(result.circuits[k]) >= 2


----------------------------------------------------------------------------
(* check_disclosure_violations on declaration lines                        *)

\* the text between the parentheses of the declaration the pattern finds on
\* the line
DeclaredParameters(line) ==
    LET m == SearchGroups(witness_pattern, line)
        open == Min({p \in m[3]..Len(line) : Char(line, p) = "("})
        close == Min({p \in open..Len(line) : Char(line, p) = ")"})
    IN  Sub(line, open + 1, close - 1)

\* the declaration on the line has no parameter
EmptyParameterList(line) ==
    \A r \in 1..Len(DeclaredParameters(line)) : Char(DeclaredParameters(line), r) \in Space

\* C26: a witness's own declaration line is one of its usage sites: for every
\* declaration `witness n(): T;` with an empty parameter list the usages of n
\* include the declaration line, and R1, R2 and R3 are evaluated on it: the
\* line carries the issues naming n that the rules' conditions give for it
C26_DeclarationIsUsage ==
    pc = "returned" =>
        LET decls == find_witness_declarations(input)
            ls == Split(input)
        IN  \A n \in 1..Len(decls) :
                LET name == decls[n][1]
                    i == decls[n][2]
                    same == {m \in 1..Len(decls) : decls[m][1] = name}
                    discloses == Contains(ls[i], "disclose")
                IN  EmptyParameterList(ls[i]) =>
                        /\ i \in UsageLinesIn(input, name)
                        /\ Cardinality(HashIssuesOn(result, i, name))
                              = IF Contains(ls[i], "persistentHash")
                                THEN Cardinality({m \in same : is_low_entropy_type(decls[m][3])})
                                ELSE 0
                        /\ Cardinality(ReturnIssuesOn(result, i, name))
                              = IF Contains(ls[i], "return") /\ ~discloses
                                THEN Cardinality(same) ELSE 0
                        /\ \A k \in 1..Len(ledger_ops) :
                               Cardinality(LedgerIssuesOn(result, i, name, k))
                                 = IF k \in OperationsOn(ls[i]) /\ ~discloses
                                   THEN Cardinality(same) ELSE 0

\* a declaration with a blank parameter list has a High issue on its own line,
\* another has a Critical one, and the line of a declaration with a parameter
\* is not among the usages of its witness
C26_Witness ==
    /\ pc = "returned"
    /\ LET decls == find_witness_declarations(input)
           ls == Split(input)
       IN  /\ \E n \in 1..Len(decls) :
                  /\ EmptyParameterList(ls[decls[n][2]])
                  /\ ReturnIssuesOn(result, decls[n][2], decls[n][1]) # {}
           /\ \E n \in 1..Len(decls) :
                  /\ EmptyParameterList(ls[decls[n][2]])
                  /\ HashIssuesOn(result, decls[n][2], decls[n][1]) # {}
           /\ \E n \in 1..Len(decls) :
                  /\ ~EmptyParameterList(ls[decls[n][2]])
                  /\ decls[n][2] \notin UsageLinesIn(input, decls[n][1])

=============================================================================
